---- MODULE Spec2Model ----
(***************************************************************************)
(* ProxyWarp: the Token Directory (lib/tokenStore.js) and the Router of    *)
(* the reverse proxy (lib/proxyHandler.js) as a state machine.             *)
(*                                                                         *)
(* Time is counted in whole seconds (TLC integers are 32 bit and the       *)
(* expiration of 30 days does not fit in milliseconds); every duration of  *)
(* the source is its value in ms divided by 1000.  Two events that happen  *)
(* with no Tick in between happen in the same millisecond.                 *)
(*                                                                         *)
(* A JavaScript object (this.tokens, the parsed file) and a Map            *)
(* (this.backupTokens) are sequences of rows [key, val] in insertion       *)
(* order: an assignment to an existing key keeps its position, a new key   *)
(* is appended, which is the order Object.entries and Map.entries iterate  *)
(* in.  The `source` field of a backup entry is only logged and is left    *)
(* out.                                                                    *)
(***************************************************************************)
EXTENDS Integers, Sequences, FiniteSets, TLC

----------------------------------------------------------------------------
(* Bounds of the model *)

\* most entries this.tokens may hold when a new token is allocated
MaxTokens == 2
\* most Tick steps of a behaviour
MaxTicks == 1
\* most debounced save callbacks pending at once
MaxTimers == 2
\* most process crashes of a behaviour
MaxCrashes == 1
\* Date.now(), in seconds, when the process is constructed
StartTime == 1000000
\* seconds a request is followed for
MaxElapsed == 40
\* seconds between two looks at a request in flight
Step == 5
\* most pieces of a document
MaxPieces == 2
\* most runs of the rewriter on a body
MaxRuns == 2
\* most Pass steps of a behaviour
MaxPasses == 8
\* most PassToDue steps of a behaviour
MaxDues == 3
\* most PassToCallback and QuietPass steps of a behaviour
MaxCallbacks == 4

----------------------------------------------------------------------------
(* Program constants, in seconds *)

TOKEN_EXPIRATION == 30 * 24 * 60 * 60
DEFAULT_PROTOCOL == "https"
SAVE_THROTTLE == 10
SAVE_DEBOUNCE == 2
SAVE_INTERVAL == 30
CLEANUP_INTERVAL == 24 * 60 * 60
ALLOC_RELOAD_AGE == 60
LOOKUP_RELOAD_AGE == 30
MAX_ATTEMPTS == 10
CACHE_TTL == 30
REQUEST_TIMEOUT == 30
PROXY_TIMEOUT == 20

\* what a Tick may add to the clock: more than the expiration, and so more
\* than every reload and save threshold
Deltas == {TOKEN_EXPIRATION + 1}

\* what a Tick may add to the clock of the router: the life of a cache entry,
\* and a second more
CacheDeltas == {CACHE_TTL, CACHE_TTL + 1}

----------------------------------------------------------------------------
(* Values *)

Undefined == "undefined"
Null == "null"
\* String(Object.prototype), what an inherited __proto__ lookup yields as a key
ProtoObject == "[object Object]"

\* the outcomes of crypto.randomBytes mapped to the alphabet
Bases == {"aaaaaa", "bbbbbb"}

\* domains handed to getTokenForDomain
DomainInputs == {"a.com", "A.com", "b.com", "__proto__"}

\* the domains of the behaviours in which time passes
TimedDomainInputs == {"a.com", "b.com"}

\* the domains of the behaviours that remember a return
WatchDomainInputs == {"a.com", "__proto__"}

\* String.prototype.toLowerCase on the inputs
toLowerCase(d) == IF d = "A.com" THEN "a.com" ELSE d

\* truthiness of a string-or-undefined value
Truthy(x) == x # Undefined /\ x # Null /\ x # ""

Digits36 ==
  << "0", "1", "2", "3", "4", "5", "6", "7", "8", "9", "a", "b", "c", "d",
     "e", "f", "g", "h", "i", "j", "k", "l", "m", "n", "o", "p", "q", "r",
     "s", "t", "u", "v", "w", "x", "y", "z" >>

Pow36_4 == 36 * 36 * 36 * 36

\* Date.now().toString(36).slice(-4) for a clock of `t` seconds
Base36Suffix(t) ==
  LET ms == ((t % Pow36_4) * 1000) % Pow36_4
  IN  Digits36[((ms \div (36 * 36 * 36)) % 36) + 1]
        \o Digits36[((ms \div (36 * 36)) % 36) + 1]
        \o Digits36[((ms \div 36) % 36) + 1]
        \o Digits36[(ms % 36) + 1]

----------------------------------------------------------------------------
(* JavaScript objects and Maps with string keys *)

Row(k, v) == [key |-> k, val |-> v]

ObjKeys(o) == {o[i].key : i \in 1..Len(o)}

ObjHas(o, k) == \E i \in 1..Len(o) : o[i].key = k

ObjGet(o, k) == o[CHOOSE i \in 1..Len(o) : o[i].key = k].val

ObjSet(o, k, v) ==
  IF ObjHas(o, k)
  THEN [i \in 1..Len(o) |-> IF o[i].key = k THEN Row(k, v) ELSE o[i]]
  ELSE Append(o, Row(k, v))

ObjDelete(o, k) == SelectSeq(o, LAMBDA r : r.key # k)

Entry(d, p, ts) == [domain |-> d, protocol |-> p, timestamp |-> ts]

\* this.domainMapping[d]: an own key, or what Object.prototype gives
MappingGet(dm, d) ==
  IF d \in DOMAIN dm THEN dm[d]
  ELSE IF d = "__proto__" THEN ProtoObject
  ELSE Undefined

\* this.domainMapping[d] = t: assigning a string to __proto__ is ignored
MappingSet(dm, d, t) ==
  IF d = "__proto__" THEN dm
  ELSE [x \in (DOMAIN dm) \cup {d} |-> IF x = d THEN t ELSE dm[x]]

\* delete this.domainMapping[d]
MappingDelete(dm, d) == [x \in (DOMAIN dm) \ {d} |-> dm[x]]

EmptyMapping == [x \in {} |-> ""]

\* names every plain object inherits from Object.prototype, each a function:
\* this.tokens[name] is truthy for them though this.tokens has no such key
InheritedKeys == {"constructor", "toString", "valueOf"}

----------------------------------------------------------------------------
(* Files *)

NoFile == [kind |-> "absent", data |-> << >>]
JsonFile(text) == [kind |-> "json", data |-> text]
PartialFile == [kind |-> "partial", data |-> << >>]
\* a file that readFileSync throws on
UnreadableFile == [kind |-> "unreadable", data |-> << >>]

\* JSON.stringify(this.tokens, null, 2): the members in key order, each with
\* the three fields of its entry
Stringify(tokens) ==
  [i \in 1..Len(tokens) |->
     << tokens[i].key, tokens[i].val.domain, tokens[i].val.protocol,
        tokens[i].val.timestamp >>]

\* JSON.parse of such a text
Parse(text) ==
  [i \in 1..Len(text) |-> Row(text[i][1], Entry(text[i][2], text[i][3], text[i][4]))]

\* what a write attempt of a handler ends as while the disk is in state `d`:
\* done, or an I/O error thrown by writeFileSync
SaveOutcome(d) == IF d = "ok" THEN "ok" ELSE "write_fail"

\* a save that writes DB_FILE itself, with no temporary file
WriteInPlace(out, db, tmp, text) ==
  IF out = "ok" THEN [db |-> JsonFile(text), tmp |-> tmp]
  ELSE [db |-> PartialFile, tmp |-> tmp]

\* writeFileSync(DB_FILE + '.tmp', data) then renameSync(tmp, DB_FILE), which
\* ends "ok", stops in the write ("write_fail": an error or the death of the
\* process), or stops between the write and the rename ("no_rename")
WriteAtomically(out, db, tmp, text) ==
  IF out = "ok" THEN [db |-> JsonFile(text), tmp |-> NoFile]
  ELSE IF out = "write_fail" THEN [db |-> db, tmp |-> PartialFile]
  ELSE [db |-> db, tmp |-> JsonFile(text)]

----------------------------------------------------------------------------
(* The TokenStore object.  A handler is a function of the store record S    *)
(* (the fields of the object, the two files and the state `disk` of the     *)
(* disk) to the store it leaves.                                            *)

VARIABLES
  tokens,         \* this.tokens: token -> {domain, protocol, timestamp}
  domainMapping,  \* this.domainMapping: domain -> token
  backupTokens,   \* this.backupTokens
  dirty,          \* this.dirty
  lastSave,       \* this.lastSave
  lastLoad,       \* this.lastLoad
  saveTimeout,    \* this.saveTimeout is not null
  isLoading,      \* this.isLoading
  timers,         \* debounced save callbacks set by setTimeout and not yet run
  debounce,       \* the times they are due, in the order they were set
  saveDue,        \* when the callback of _setupPeriodicSave is due next
  cleanupDue,     \* when the callback of _setupCleanup is due next
  dirtySince,     \* when this.dirty was set, if it is: the first time since the
                  \* last write of DB_FILE, or since the start
  dbFile,         \* config.DB_FILE
  tmpFile,        \* config.DB_FILE + '.tmp'
  disk,           \* "ok", or "failing": a write throws an I/O error
  phase,          \* "constructed" | "running"
  now,            \* Date.now()
  ticks,          \* Tick steps taken
  crashes,        \* crashes so far
  requestCache,   \* requestCache of the router: token -> target domain
  cacheTimers,    \* eviction callbacks set and not yet run, per token: the
                  \* times they are due, in the order they were set
  cacheBorn,      \* per cache entry: when it was set, and whether an eviction
                  \* callback was set with it
  used,           \* per token, where the requests are followed: when the last
                  \* one came, and whether each came before TOKEN_EXPIRATION
                  \* had passed since the one before
  flight,         \* the request in flight: its watchdog, its upstream request
                  \* and the response res as the client receives it
  page,           \* an HTML body the rewriter collected, and what it made of it
  allocated,      \* a token getTokenForDomain returned, and the domain it was for
  resolved,       \* a token getDomainInfoFromToken found, and the domain returned
  last            \* the last operation: what it was given and what it returned

storeVars ==
  << tokens, domainMapping, backupTokens, dirty, lastSave, lastLoad,
     saveTimeout, isLoading, timers, debounce, saveDue, cleanupDue, dirtySince,
     dbFile, tmpFile >>

Store ==
  [ tokens |-> tokens, domainMapping |-> domainMapping,
    backupTokens |-> backupTokens, dirty |-> dirty, lastSave |-> lastSave,
    lastLoad |-> lastLoad, saveTimeout |-> saveTimeout,
    isLoading |-> isLoading, timers |-> timers, debounce |-> debounce,
    saveDue |-> saveDue, cleanupDue |-> cleanupDue, dbFile |-> dbFile,
    tmpFile |-> tmpFile, disk |-> disk ]

\* the store of `new TokenStore()`, beside the files `db` and `tmp`
Constructed(db, tmp, dsk) ==
  [ tokens |-> << >>, domainMapping |-> EmptyMapping, backupTokens |-> << >>,
    dirty |-> FALSE, lastSave |-> 0, lastLoad |-> 0, saveTimeout |-> FALSE,
    isLoading |-> FALSE, timers |-> 0, debounce |-> << >>, saveDue |-> 0,
    cleanupDue |-> 0,
    dbFile |-> db, tmpFile |-> tmp, disk |-> dsk ]

Commit(S) ==
  /\ tokens' = S.tokens
  /\ domainMapping' = S.domainMapping
  /\ backupTokens' = S.backupTokens
  /\ dirty' = S.dirty
  /\ lastSave' = S.lastSave
  /\ lastLoad' = S.lastLoad
  /\ saveTimeout' = S.saveTimeout
  /\ isLoading' = S.isLoading
  /\ timers' = S.timers
  /\ debounce' = S.debounce
  /\ saveDue' = S.saveDue
  /\ cleanupDue' = S.cleanupDue
  /\ dirtySince' = IF S.dirty /\ (~dirty \/ S.lastSave # lastSave) THEN now
                   ELSE dirtySince
  /\ dbFile' = S.dbFile
  /\ tmpFile' = S.tmpFile

\* a _saveImmediately() whose catch block gives the change up
SaveAndForget(S, t) ==
  IF ~S.dirty THEN S
  ELSE
    LET out == SaveOutcome(S.disk)
        files == WriteAtomically(out, S.dbFile, S.tmpFile, Stringify(S.tokens))
        S1 == [S EXCEPT !.dbFile = files.db, !.tmpFile = files.tmp]
    IN  IF out = "ok"
        THEN [S1 EXCEPT !.lastSave = t, !.dirty = FALSE, !.saveTimeout = FALSE]
        ELSE [S1 EXCEPT !.dirty = FALSE]

\* _saveImmediately()
SaveImmediately(S, t) ==
  IF ~S.dirty THEN S
  ELSE
    LET out == SaveOutcome(S.disk)
        files == WriteAtomically(out, S.dbFile, S.tmpFile, Stringify(S.tokens))
        S1 == [S EXCEPT !.dbFile = files.db, !.tmpFile = files.tmp]
    IN  IF out = "ok"
        THEN [S1 EXCEPT !.lastSave = t, !.dirty = FALSE, !.saveTimeout = FALSE]
        ELSE S1

\* a save() that never waits: it writes at once, forced or not
SaveAtOnce(S, force, t) ==
  SaveImmediately([S EXCEPT !.dirty = TRUE], t)

\* a save() that debounces the forced saves too
SaveDebounced(S, force, t) ==
  LET S1 == [S EXCEPT !.dirty = TRUE]
  IN  IF S1.saveTimeout THEN S1
      ELSE IF t - S1.lastSave > SAVE_THROTTLE
        THEN SaveImmediately(S1, t)
        ELSE [S1 EXCEPT !.saveTimeout = TRUE, !.timers = @ + 1,
                        !.debounce = Append(@, t + SAVE_DEBOUNCE)]

\* save(force)
Save(S, force, t) ==
  LET S1 == [S EXCEPT !.dirty = TRUE]
  IN  IF S1.saveTimeout /\ ~force THEN S1
      ELSE IF force \/ t - S1.lastSave > SAVE_THROTTLE
        THEN SaveImmediately(S1, t)
        ELSE [S1 EXCEPT !.saveTimeout = TRUE, !.timers = @ + 1,
                        !.debounce = Append(@, t + SAVE_DEBOUNCE)]

\* the loop of _loadTokensFromFile that rebuilds this.domainMapping and
\* refreshes the backup from the loaded entries
RECURSIVE RebuildFrom(_, _, _)
RebuildFrom(S, loaded, i) ==
  IF i > Len(loaded) THEN S
  ELSE
    LET token == loaded[i].key
        info == loaded[i].val
    IN  IF Truthy(info.domain)
        THEN RebuildFrom(
               [S EXCEPT
                  !.domainMapping = MappingSet(@, info.domain, token),
                  !.backupTokens = ObjSet(@, token, info)],
               loaded, i + 1)
        ELSE RebuildFrom(S, loaded, i + 1)

\* the loop that recovers this.tokens from the backup
RECURSIVE RecoverFrom(_, _, _, _)
RecoverFrom(S, backup, i, t) ==
  IF i > Len(backup) THEN S
  ELSE
    LET token == backup[i].key
        info == backup[i].val
    IN  RecoverFrom(
          [S EXCEPT
             !.tokens = ObjSet(@, token,
                          Entry(info.domain,
                                IF Truthy(info.protocol) THEN info.protocol
                                ELSE DEFAULT_PROTOCOL,
                                IF info.timestamp # 0 THEN info.timestamp ELSE t)),
             !.domainMapping = MappingSet(@, info.domain, token)],
          backup, i + 1, t)

\* _loadTokensFromFile()
LoadTokensFromFile(S, t) ==
  IF S.isLoading THEN S
  ELSE IF S.dbFile.kind = "absent" THEN Save(S, TRUE, t)
  ELSE IF S.dbFile.kind = "json"
    THEN LET loaded == Parse(S.dbFile.data)
             S1 == [S EXCEPT !.tokens = loaded, !.domainMapping = EmptyMapping]
         IN  [RebuildFrom(S1, loaded, 1) EXCEPT !.lastLoad = t]
  ELSE IF S.dbFile.kind = "unreadable"
    THEN \* readFileSync throws: the outer catch
         IF Len(S.backupTokens) > 0
         THEN Save(RecoverFrom([S EXCEPT !.tokens = << >>], S.backupTokens, 1, t),
                   TRUE, t)
         ELSE Save([S EXCEPT !.tokens = << >>, !.domainMapping = EmptyMapping],
                   TRUE, t)
  ELSE \* JSON.parse throws
    IF Len(S.backupTokens) > 0
    THEN Save(RecoverFrom([S EXCEPT !.tokens = << >>], S.backupTokens, 1, t), TRUE, t)
    ELSE S

\* the sequences of random draws of one _generateToken call: b1 once, then
\* b2 on every further draw
DrawSeqs ==
  { [i \in 1..(MAX_ATTEMPTS + 1) |-> IF i = 1 THEN b1 ELSE b2] :
      b1 \in Bases, b2 \in Bases }

\* the draws of the behaviours in which time passes: the two bases, each first
TimedDrawSeqs == {draws \in DrawSeqs : draws[1] # draws[2]}

\* _generateToken(): the do-while loop, `attempts` draws made so far
RECURSIVE GenerateLoop(_, _, _, _)
GenerateLoop(toks, draws, attempts, t) ==
  LET token == draws[attempts + 1]
  IN  IF attempts + 1 > MAX_ATTEMPTS THEN token \o Base36Suffix(t)
      ELSE IF ObjHas(toks, token) THEN GenerateLoop(toks, draws, attempts + 1, t)
      ELSE token

GenerateToken(toks, draws, t) == GenerateLoop(toks, draws, 0, t)

\* this.tokens[token].timestamp = Date.now()
Touch(toks, token, t) ==
  ObjSet(toks, token, [ObjGet(toks, token) EXCEPT !.timestamp = t])

\* getTokenForDomain(domain): the store it leaves, the token it returns and
\* the path it took
GetTokenForDomain(S, domainIn, draws, t) ==
  LET domain == toLowerCase(domainIn)
      m == MappingGet(S.domainMapping, domain)
  IN
  IF Truthy(m) /\ ObjHas(S.tokens, m)
  THEN LET toks == Touch(S.tokens, m, t)
       IN  [ S |-> [S EXCEPT !.tokens = toks,
                             !.backupTokens = ObjSet(@, m, ObjGet(toks, m)),
                             !.dirty = TRUE],
             ret |-> m, path |-> "hit" ]
  ELSE
    LET stale == t - S.lastLoad > ALLOC_RELOAD_AGE
        S1 == IF stale THEN LoadTokensFromFile(S, t) ELSE S
        m1 == MappingGet(S1.domainMapping, domain)
    IN
    IF stale /\ Truthy(m1) /\ ObjHas(S1.tokens, m1)
    THEN [ S |-> [S1 EXCEPT !.tokens = Touch(@, m1, t), !.dirty = TRUE],
           ret |-> m1, path |-> "reload_hit" ]
    ELSE
      LET token == GenerateToken(S1.tokens, draws, t)
          info == Entry(domain, DEFAULT_PROTOCOL, t)
          S2 == [S1 EXCEPT !.tokens = ObjSet(@, token, info),
                           !.domainMapping = MappingSet(@, domain, token),
                           !.backupTokens = ObjSet(@, token, info)]
      IN  [ S |-> Save(S2, TRUE, t), ret |-> token,
            path |-> IF ObjHas(S1.tokens, token) THEN "alloc_collision"
                     ELSE "alloc" ]

\* the path is one that allocated a new token
Allocating(path) == path \in {"alloc", "alloc_collision"}

\* String.prototype.trim on the inputs
trim(x) == IF x = "aaaaaa " THEN "aaaaaa" ELSE x

\* the tail of getDomainInfoFromToken: refresh the entry found
RefreshFound(S, token, t) ==
  LET toks == Touch(S.tokens, token, t)
  IN  [S EXCEPT !.tokens = toks, !.dirty = TRUE,
                !.backupTokens = ObjSet(@, token, ObjGet(toks, token))]

\* getDomainInfoFromToken(token): the store it leaves, the domain of the
\* object it returns (Null for null, Undefined for an object with no domain)
\* and the path it took
GetDomainInfoFromToken(S, tokenIn, t) ==
  IF ~Truthy(tokenIn) THEN [S |-> S, ret |-> Null, path |-> "invalid"]
  ELSE
    LET token == trim(tokenIn) IN
    IF ObjHas(S.tokens, token)
    THEN LET S1 == RefreshFound(S, token, t)
         IN  [S |-> S1, ret |-> ObjGet(S1.tokens, token).domain, path |-> "hit"]
    ELSE IF token \in InheritedKeys
    THEN \* this.tokens[token] is the inherited function: it gets the
         \* timestamp, its copy goes to the backup, and it is returned
         [ S |-> [S EXCEPT !.dirty = TRUE,
                           !.backupTokens =
                              ObjSet(@, token, Entry(Undefined, Undefined, t))],
           ret |-> Undefined, path |-> "inherited" ]
    ELSE IF ObjHas(S.backupTokens, token)
    THEN LET backupInfo == ObjGet(S.backupTokens, token)
             info == Entry(backupInfo.domain,
                           IF Truthy(backupInfo.protocol) THEN backupInfo.protocol
                           ELSE DEFAULT_PROTOCOL,
                           t)
         IN  [ S |-> [S EXCEPT
                        !.tokens = ObjSet(@, token, info),
                        !.domainMapping = MappingSet(@, backupInfo.domain, token),
                        !.dirty = TRUE],
               ret |-> info.domain, path |-> "backup" ]
    ELSE
      LET S1 == IF t - S.lastLoad > LOOKUP_RELOAD_AGE
                THEN LoadTokensFromFile(S, t) ELSE S
      IN  IF ~ObjHas(S1.tokens, token)
          THEN [S |-> S1, ret |-> Null, path |-> "miss"]
          ELSE LET S2 == RefreshFound(S1, token, t)
               IN  [ S |-> S2, ret |-> ObjGet(S2.tokens, token).domain,
                     path |-> "reload_hit" ]

\* the tokens the cleanup callback removes
Expired(toks, t) ==
  { toks[i].key : i \in { j \in 1..Len(toks) :
                            t - toks[j].val.timestamp > TOKEN_EXPIRATION } }

\* the loop of the cleanup callback over Object.entries(this.tokens)
RECURSIVE CleanupLoop(_, _, _, _)
CleanupLoop(S, entries, i, t) ==
  IF i > Len(entries) THEN S
  ELSE
    LET token == entries[i].key
        info == entries[i].val
    IN  IF t - info.timestamp > TOKEN_EXPIRATION
        THEN CleanupLoop(
               [S EXCEPT !.domainMapping = MappingDelete(@, info.domain),
                         !.tokens = ObjDelete(@, token),
                         !.backupTokens = ObjDelete(@, token)],
               entries, i + 1, t)
        ELSE CleanupLoop(S, entries, i + 1, t)

\* a cleanup that saves nothing
CleanupUnsaved(S, t) == CleanupLoop(S, S.tokens, 1, t)

\* the callback of _setupCleanup
CleanupCallback(S, t) ==
  LET S1 == CleanupLoop(S, S.tokens, 1, t)
      hasChanges == Expired(S.tokens, t) # {}
  IN  IF hasChanges THEN Save(S1, FALSE, t) ELSE S1

\* forceReload(): the store it leaves and the count it returns
ForceReloadOp(S, t) ==
  LET S1 == LoadTokensFromFile(S, t)
  IN  [S |-> S1, ret |-> Len(S1.tokens)]

----------------------------------------------------------------------------
(* The router: the middleware of setupProxyHandler.  The key of a cache     *)
(* entry is written as its token, the value as the domain of the target.    *)

\* no Referer header
NoReferer == "-"

\* a Referer whose host is not a subdomain of BASE_DOMAIN
ForeignReferer == "example.org"

EmptyTimers == [x \in {} |-> << >>]

\* setTimeout(() => requestCache.delete(cacheKey), CACHE_TTL) at time t
SetEviction(ct, token, t) ==
  [x \in (DOMAIN ct) \cup {token} |->
     IF x = token
     THEN (IF x \in DOMAIN ct THEN Append(ct[x], t + CACHE_TTL)
           ELSE << t + CACHE_TTL >>)
     ELSE ct[x]]

\* what the middleware leaves: the store, the cache, the eviction callbacks,
\* the response written by the handler itself, the watchdog of the request,
\* the target forwarded to and the path that resolved the token
Handled(S, cache, ct, status, watchdog, target, by) ==
  [ S |-> S, cache |-> cache, ct |-> ct, status |-> status,
    watchdog |-> watchdog, target |-> target, by |-> by ]

\* requestCache.set(cacheKey, targetInfo)
CacheSet(cache, token, domain) ==
  [x \in (DOMAIN cache) \cup {token} |-> IF x = token THEN domain ELSE cache[x]]

\* requestCache.delete(cacheKey)
CacheDelete(cache, token) == [x \in (DOMAIN cache) \ {token} |-> cache[x]]

\* createProxyMiddleware2(targetInfo, token)(req, res, next): the request
\* goes upstream, or the missing domain makes it throw; the throw is answered
\* 500, by the catch of the handler or by the error handler of Express, and
\* the watchdog is cleared, by the catch or as the response finishes
Forward(S, cache, ct, domain, by) ==
  IF ~Truthy(domain) THEN Handled(S, cache, ct, "500", "cleared", "-", by)
  ELSE Handled(S, cache, ct, "forwarded", "armed", domain, by)

\* the end of the miss branch: clearTimeout(requestTimeout) and the 400 page
InvalidToken(S, cache, ct, token) ==
  Handled(S, cache, ct, "400", "cleared", "-", "none")

\* a retry that looks the token up again without forceReload()
RetryUnloaded(S, cache, ct, token, t) ==
  LET R2 == GetDomainInfoFromToken(S, token, t)
  IN  IF R2.ret # Null
      THEN Forward(R2.S, CacheSet(cache, token, R2.ret), ct, R2.ret, "reload")
      ELSE InvalidToken(R2.S, cache, ct, token)

\* the retry of the miss branch: forceReload(), a second lookup, and the
\* request goes upstream or is answered 400
Retry(S, cache, ct, token, t) ==
  LET S1 == ForceReloadOp(S, t).S
      R2 == GetDomainInfoFromToken(S1, token, t)
  IN  IF R2.ret # Null
      THEN Forward(R2.S, CacheSet(cache, token, R2.ret), ct, R2.ret, "reload")
      ELSE InvalidToken(R2.S, cache, ct, token)

\* the middleware for a request whose Host is token.BASE_DOMAIN
ProxyMiddleware(S, cache, ct, token, referer, t) ==
  IF token \in DOMAIN cache
  THEN Forward(S, cache, ct, cache[token], "cache")
  ELSE
    LET R == GetDomainInfoFromToken(S, token, t)
    IN
    IF R.ret # Null
    THEN Forward(R.S, CacheSet(cache, token, R.ret), SetEviction(ct, token, t),
                 R.ret, "directory")
    ELSE
      LET viaReferer == referer \notin {NoReferer, ForeignReferer}
          RR == IF viaReferer THEN GetDomainInfoFromToken(R.S, referer, t)
                ELSE [S |-> R.S, ret |-> Null, path |-> "-"]
      IN
      IF RR.ret # Null
      THEN IF Truthy(RR.ret)
           THEN Handled(RR.S, CacheSet(cache, token, RR.ret),
                        SetEviction(ct, token, t), "forwarded", "armed", RR.ret,
                        "referer")
           ELSE \* the throw is caught by the catch of the Referer block
                Retry(RR.S, CacheSet(cache, token, RR.ret),
                      SetEviction(ct, token, t), token, t)
      ELSE Retry(RR.S, cache, ct, token, t)

----------------------------------------------------------------------------
(* The response of a forwarded request: createProxyMiddleware2 and the     *)
(* watchdog of the middleware.  The record F is the request in flight: the *)
(* upstream request `up`, the seconds `elapsed` since the request came in  *)
(* and `idle` since the upstream socket last moved, the watchdog, and the  *)
(* response res: whether its headers are sent, the status lines written    *)
(* (`sent`), the headers and the body delivered, whether it is ended; and  *)
(* the body the upstream sends (`upstream`) with what has yet to arrive.   *)

\* a header object: name -> value
NoHeaders == [x \in {} |-> ""]

\* delete proxyRes.headers[name]
HeaderDelete(h, name) == [x \in (DOMAIN h) \ {name} |-> h[x]]

\* proxyRes.headers[name] = value
HeaderSet(h, name, value) ==
  [x \in (DOMAIN h) \cup {name} |-> IF x = name THEN value ELSE h[x]]

\* the names onProxyRes deletes, in the order of the statements
DeletedHeaders ==
  << "x-frame-options", "X-Frame-Options", "content-security-policy",
     "Content-Security-Policy", "content-security-policy-report-only",
     "feature-policy", "permissions-policy" >>

\* the headers onProxyRes assigns, in the order of the statements
AssignedHeaders ==
  << << "access-control-allow-origin", "*" >>,
     << "access-control-allow-methods", "GET, POST, PUT, PATCH, DELETE, OPTIONS" >>,
     << "access-control-allow-headers",
        "Origin, X-Requested-With, Content-Type, Accept, Authorization" >>,
     << "access-control-allow-credentials", "true" >>,
     << "x-frame-options", "ALLOWALL" >> >>

RECURSIVE DeleteHeaders(_, _, _)
DeleteHeaders(h, names, i) ==
  IF i > Len(names) THEN h
  ELSE DeleteHeaders(HeaderDelete(h, names[i]), names, i + 1)

RECURSIVE AssignHeaders(_, _, _)
AssignHeaders(h, pairs, i) ==
  IF i > Len(pairs) THEN h
  ELSE AssignHeaders(HeaderSet(h, pairs[i][1], pairs[i][2]), pairs, i + 1)

\* an onProxyRes that assigns its headers before it deletes
OnProxyResHeadersSwapped(h) ==
  DeleteHeaders(AssignHeaders(h, AssignedHeaders, 1), DeletedHeaders, 1)

\* what onProxyRes makes of proxyRes.headers
OnProxyResHeaders(h) ==
  AssignHeaders(DeleteHeaders(h, DeletedHeaders, 1), AssignedHeaders, 1)

\* contentType.includes('text/html') on proxyRes.headers['content-type'] || ''
IsHtml(h) ==
  /\ "content-type" \in DOMAIN h
  /\ h["content-type"] \in {"text/html", "text/html; charset=utf-8"}

\* the option selfHandleResponse handed to createProxyMiddleware
SelfHandleResponse == FALSE

\* no request in flight
NoFlight ==
  [ up |-> "none", elapsed |-> 0, idle |-> 0, watchdog |-> "none", fired |-> 0,
    headersSent |-> FALSE, sent |-> << >>, ended |-> FALSE,
    headers |-> NoHeaders, html |-> FALSE, pipes |-> << >>,
    responseBody |-> << >>, upstream |-> << >>, pending |-> << >>,
    body |-> << >>, threw |-> FALSE ]

\* a piece of the body res delivers: who wrote it and what, an upstream
\* chunk as it came, an error page, or the rewriting of the chunks `of`
Piece(writer, chunk, of) == [by |-> writer, chunk |-> chunk, of |-> of]

\* res.write(piece): the first write sends the status line and the headers;
\* a write after the end is dropped
Write(F, status, piece) ==
  IF F.ended THEN F
  ELSE [F EXCEPT !.headersSent = TRUE,
                 !.sent = IF F.headersSent THEN @ ELSE Append(@, status),
                 !.body = Append(@, piece)]

\* res.end(): the response finishes, and its 'finish' listener clears the
\* watchdog
End(F, status) ==
  IF F.ended THEN F
  ELSE [F EXCEPT !.headersSent = TRUE,
                 !.sent = IF F.headersSent THEN @ ELSE Append(@, status),
                 !.ended = TRUE,
                 !.watchdog = IF @ = "armed" THEN "cleared" ELSE @]

\* res.status(status).send(renderErrorPage(...))
SendPage(F, status) == End(Write(F, status, Piece("page", status, << >>)), status)

\* the middleware returned: the request went upstream with its watchdog
\* armed, or it was answered with an error page
StartFlight(status) ==
  IF status = "forwarded"
  THEN [NoFlight EXCEPT !.up = "waiting", !.watchdog = "armed"]
  ELSE [SendPage([NoFlight EXCEPT !.watchdog = "armed"], status)
          EXCEPT !.up = "over"]

\* a watchdog that ends the response it finds started
RequestTimeoutEnds(F) ==
  LET F1 == [F EXCEPT !.watchdog = "fired", !.fired = @ + 1]
  IN  IF ~F1.headersSent THEN SendPage(F1, "504") ELSE End(F1, "504")

\* the callback of requestTimeout
RequestTimeout(F) ==
  LET F1 == [F EXCEPT !.watchdog = "fired", !.fired = @ + 1]
  IN  IF ~F1.headersSent THEN SendPage(F1, "504") ELSE F1

\* an error handler that sends its page whatever was sent before
OnErrorAlways(F) ==
  LET F1 == [F EXCEPT !.up = "over"]
  IN  IF ~F1.headersSent THEN SendPage(F1, "502")
      ELSE End([F1 EXCEPT !.sent = Append(@, "502"),
                          !.body = Append(@, Piece("page", "502", << >>))],
               "502")

\* onError(err, req, res)
OnError(F) ==
  LET F1 == [F EXCEPT !.up = "over"]
  IN  IF ~F1.headersSent THEN SendPage(F1, "502") ELSE End(F1, "502")

\* the 'proxyRes' event: onProxyRes scrubs the headers and attaches the
\* rewriter (HTML) or its own pipe (anything else); then the proxy, unless
\* selfHandleResponse is set, copies the headers to res if none were sent and
\* pipes proxyRes to res if res has not finished
OnProxyRes(F, h, chunks) ==
  LET scrubbed == OnProxyResHeaders(h)
      html == IsHtml(scrubbed)
      own == IF html THEN << >> ELSE << "onProxyRes" >>
      lib == IF ~SelfHandleResponse /\ ~F.ended THEN << "http-proxy" >>
             ELSE << >>
  IN  [F EXCEPT !.up = "responding", !.idle = 0,
                !.headers = IF ~F.headersSent /\ ~SelfHandleResponse
                            THEN scrubbed ELSE @,
                !.html = html, !.pipes = own \o lib, !.upstream = chunks,
                !.pending = chunks]

\* every pipe of proxyRes writes the chunk to res, in the order the pipes
\* were attached
RECURSIVE PipeData(_, _, _)
PipeData(F, chunk, i) ==
  IF i > Len(F.pipes) THEN F
  ELSE PipeData(Write(F, "200", Piece(F.pipes[i], chunk, << >>)), chunk, i + 1)

\* a 'data' event of proxyRes: the listener of the rewriter, attached first,
\* then the pipes
OnData(F, chunk) ==
  LET F1 == [F EXCEPT !.idle = 0, !.pending = Tail(@),
                      !.responseBody = IF F.html THEN Append(@, chunk) ELSE @]
  IN  PipeData(F1, chunk, 1)

\* every pipe ends res
RECURSIVE PipeEnd(_, _)
PipeEnd(F, i) ==
  IF i > Len(F.pipes) THEN F ELSE PipeEnd(End(F, "200"), i + 1)

\* the 'end' event of proxyRes: the listener of the rewriter, attached first,
\* sets content-length and ends res with the rewritten body; setHeader
\* throws if the headers are sent, nothing catches it, and the process goes
\* down with its timers.  Then the pipes end res.
OnEnd(F) ==
  LET F1 == [F EXCEPT !.up = "over"]
  IN  IF ~F1.html THEN PipeEnd(F1, 1)
      ELSE IF F1.headersSent
      THEN [F1 EXCEPT !.threw = TRUE, !.watchdog = "none"]
      ELSE PipeEnd(End(Write(F1, "200",
                             Piece("rewriter", "rewritten", F1.responseBody)),
                       "200"), 1)

----------------------------------------------------------------------------
(* The HTML rewriter of lib/linkRewriter.js.  A document is the sequence of *)
(* its lexemes (tag openers, attribute names with their =, quotes, pieces   *)
(* of URLs, white space), its text their concatenation; the regular         *)
(* expressions of the rewriter are matched lexeme by lexeme.                *)

DQ == "\""
SQ == "'"

\* targetInfo.domain, targetInfo.protocol + ':' and req.proxyToken of the
\* response that is rewritten
TargetDomain == "a.com"
TargetScheme == "https:"
ProxyToken == "aaaaaa"

\* `https://${token}.${config.BASE_DOMAIN}` of buildProxyUrl, one lexeme
ProxyOrigin == "https://aaaaaa.proxywarp.com"

\* generateClientScript(token, config.BASE_DOMAIN, targetDomain), one
\* lexeme: a script element that holds no href=, src= or action= followed by
\* a quote, no head, base or body tag and no $
ClientScript == "<script data-proxywarp-injected=\"true\">...</script>"

\* the lexeme at i, or the empty string past the end
At(doc, i) == IF i >= 1 /\ i <= Len(doc) THEN doc[i] ELSE ""

IsQuote(l) == l \in {DQ, SQ}

\* \s
IsSpace(l) == l \in {" ", "\n"}

\* (href|src)= under the flag i
IsAttr(l) == l \in {"href=", "src=", "HREF="}

\* the lexeme holds a > character
HasGt(l) == l \in {">", "<head>", "<body>", "</body>", "</BODY>", ClientScript}

\* the lexeme holds config.BASE_DOMAIN
HasBaseDomain(l) == l \in {ProxyOrigin, "proxywarp.com"}

\* [^"']*["'] from i on: the place of the first quote, 0 if there is none
RECURSIVE QuoteFrom(_, _)
QuoteFrom(doc, i) ==
  IF i > Len(doc) THEN 0
  ELSE IF IsQuote(doc[i]) THEN i
  ELSE QuoteFrom(doc, i + 1)

\* buildProxyUrl(token, pathAndQuery)
BuildProxyUrl(pathAndQuery) ==
  IF pathAndQuery # << >> /\ At(pathAndQuery, 1) \notin {"/", "//"}
  THEN << ProxyOrigin, "/" >> \o pathAndQuery
  ELSE << ProxyOrigin >> \o pathAndQuery

\* no match at this place
NoMatch == [len |-> 0, out |-> << >>]

\* (href|src)=["'](https:)?//(www\.)?a\.com([^"']*)["'] at i, and its
\* replacement `${attr}="${buildProxyUrl(token, path)}"`
MatchAbsoluteUrl(doc, i) ==
  LET a == IF At(doc, i + 2) = TargetScheme THEN i + 3 ELSE i + 2
      b == IF At(doc, a + 1) = "www." THEN a + 2 ELSE a + 1
      k == QuoteFrom(doc, b + 1)
  IN  IF /\ IsAttr(At(doc, i))
         /\ IsQuote(At(doc, i + 1))
         /\ At(doc, a) = "//"
         /\ At(doc, b) = TargetDomain
         /\ k # 0
      THEN [ len |-> k - i + 1,
             out |-> << doc[i], DQ >>
                       \o BuildProxyUrl(SubSeq(doc, b + 1, k - 1)) \o << DQ >> ]
      ELSE NoMatch

\* \s(href|src)=["']\/([^"']*)["'] at i, and its replacement
\* ` ${attr}="${buildProxyUrl(token, '/' + path)}"`
MatchAbsolutePath(doc, i) ==
  LET k == QuoteFrom(doc, i + 4)
  IN  IF /\ IsSpace(At(doc, i))
         /\ IsAttr(At(doc, i + 1))
         /\ IsQuote(At(doc, i + 2))
         /\ At(doc, i + 3) \in {"/", "//"}
         /\ k # 0
      THEN [ len |-> k - i + 1,
             out |-> << " ", doc[i + 1], DQ >>
                       \o BuildProxyUrl(SubSeq(doc, i + 3, k - 1)) \o << DQ >> ]
      ELSE NoMatch

\* the places j of an action= that <form([^>]*)action=["']([^"']*)["'] may
\* take from a <form at i: no > in between, a quote behind and one further on
ActionPlaces(doc, i) ==
  { j \in (i + 1)..Len(doc) :
      /\ doc[j] = "action="
      /\ \A m \in (i + 1)..(j - 1) : ~HasGt(doc[m])
      /\ IsQuote(At(doc, j + 1))
      /\ QuoteFrom(doc, j + 2) # 0 }

\* new URL(actionUrl): hostname and pathname + search of an action that
\* starts with http, for the URLs of the documents
ParseUrl(actionUrl) ==
  LET www == At(actionUrl, 3) = "www."
      h == IF www THEN 4 ELSE 3
      rest == SubSeq(actionUrl, h + 1, Len(actionUrl))
  IN  [ hostname |-> (IF www THEN "www." ELSE "") \o At(actionUrl, h),
        pathAndSearch |-> IF rest = << >> THEN << "/" >> ELSE rest ]

\* the replacement function of the form actions
RewriteAction(match, formAttrs, actionUrl) ==
  IF \E m \in 1..Len(actionUrl) : HasBaseDomain(actionUrl[m]) THEN match
  ELSE IF At(actionUrl, 1) \in {"https:", "http:"}
  THEN LET u == ParseUrl(actionUrl)
       IN  IF u.hostname \in {TargetDomain, "www." \o TargetDomain}
           THEN << "<form" >> \o formAttrs \o << "action=", DQ >>
                  \o BuildProxyUrl(u.pathAndSearch) \o << DQ >>
           ELSE match
  ELSE IF At(actionUrl, 1) \in {"/", "//"}
  THEN << "<form" >> \o formAttrs \o << "action=", DQ >>
         \o BuildProxyUrl(actionUrl) \o << DQ >>
  ELSE match

\* <form([^>]*)action=["']([^"']*)["'] at i: the greedy [^>]* takes the last
\* action= it may
MatchFormAction(doc, i) ==
  IF At(doc, i) # "<form" \/ ActionPlaces(doc, i) = {} THEN NoMatch
  ELSE LET j == CHOOSE x \in ActionPlaces(doc, i) :
                  \A y \in ActionPlaces(doc, i) : y <= x
           k == QuoteFrom(doc, j + 2)
       IN  [ len |-> k - i + 1,
             out |-> RewriteAction(SubSeq(doc, i, k), SubSeq(doc, i + 1, j - 1),
                                   SubSeq(doc, j + 2, k - 1)) ]

\* the match of the expression of step `step` at i
Match(step, doc, i) ==
  CASE step = 1 -> MatchAbsoluteUrl(doc, i)
    [] step = 2 -> MatchAbsolutePath(doc, i)
    [] OTHER -> MatchFormAction(doc, i)

\* String.prototype.replace with a global expression: the matches from left
\* to right, none overlapping
RECURSIVE ReplaceAll(_, _, _)
ReplaceAll(step, doc, i) ==
  IF i > Len(doc) THEN << >>
  ELSE LET M == Match(step, doc, i)
       IN  IF M.len = 0 THEN << doc[i] >> \o ReplaceAll(step, doc, i + 1)
           ELSE M.out \o ReplaceAll(step, doc, i + M.len)

\* the first place from i on that holds one of the lexemes, 0 if none
RECURSIVE FirstOf(_, _, _)
FirstOf(doc, i, lexemes) ==
  IF i > Len(doc) THEN 0
  ELSE IF doc[i] \in lexemes THEN i
  ELSE FirstOf(doc, i + 1, lexemes)

\* /<base\s+[^>]*>/i.test(responseBody)
BaseTagExists(doc) ==
  \E i \in 1..Len(doc) :
    /\ doc[i] \in {"<base", "<BASE"}
    /\ IsSpace(At(doc, i + 1))
    /\ \E k \in (i + 2)..Len(doc) : HasGt(doc[k])

\* the lexemes /<head[^>]*>/i matches
HeadTags == {"<head>", "<HEAD>", "<header>"}

\* the base tag is put behind the first match of /<head[^>]*>/i
AddBaseTag(doc) ==
  LET i == FirstOf(doc, 1, HeadTags)
  IN  IF BaseTagExists(doc) \/ i = 0 THEN doc
      ELSE SubSeq(doc, 1, i)
             \o << "\n", "<base", " ", "href=", DQ >>
             \o BuildProxyUrl(<< "/" >>) \o << DQ, ">", "\n" >>
             \o SubSeq(doc, i + 1, Len(doc))

\* the client script is put before the first '</body>', or at the end
InjectClientScript(doc) ==
  LET i == FirstOf(doc, 1, {"</body>"})
  IN  IF i # 0
      THEN SubSeq(doc, 1, i - 1) \o << ClientScript, "\n", "</body>" >>
             \o SubSeq(doc, i + 1, Len(doc))
      ELSE Append(doc, ClientScript)

\* the 'end' listener of the rewriter: the body it passes to res.end
Rewrite(responseBody) ==
  LET urls == ReplaceAll(1, responseBody, 1)
      paths == ReplaceAll(2, urls, 1)
      forms == ReplaceAll(3, paths, 1)
  IN  InjectClientScript(AddBaseTag(forms))

\* the text of a document: the lexemes of its pieces, in order
RECURSIVE Flatten(_)
Flatten(pieces) ==
  IF pieces = << >> THEN << >> ELSE Head(pieces).lex \o Flatten(Tail(pieces))

\* no response body was collected
NoPage ==
  [ pieces |-> << >>, input |-> << >>, once |-> << >>, output |-> << >>,
    runs |-> 0 ]

----------------------------------------------------------------------------
(* The management routes of routes/index.js.  A URL is the sequence of its  *)
(* lexemes: the scheme with its colon, the two slashes, the host, the path, *)
(* the query with its question mark, the fragment with its hash.            *)

BASE_DOMAIN == "proxywarp.com"

\* the schemes the URL parser holds for special
SpecialSchemes == {"https:", "http:"}

\* the lexemes of a path, of a query and of a fragment
IsPath(l) == l \in {"/", "/foo"}
IsSearch(l) == l \in {"?bar=1"}
IsHash(l) == l \in {"#x"}

\* the lexeme is a host: it holds none of / ? # : and is not empty
IsHost(l) == l \in {"a.com", "A.com", "b.com", "a_b.com", "-a.com"}

\* the host parser of new URL: letters in lower case
HostToLower(h) == IF h = "A.com" THEN "a.com" ELSE h

\* new URL(url): throws, or the hostname, pathname and search of the URL
InvalidUrl == [ok |-> FALSE, hostname |-> "", pathname |-> << >>, search |-> << >>]
NewURL(url) ==
  IF url = << >> THEN InvalidUrl
  ELSE IF url[1] \in SpecialSchemes
  THEN IF At(url, 2) = "//" /\ IsHost(At(url, 3))
       THEN LET rest == SubSeq(url, 4, Len(url))
                path == SelectSeq(rest, IsPath)
            IN  [ ok |-> TRUE, hostname |-> HostToLower(url[3]),
                  pathname |-> IF path = << >> THEN << "/" >> ELSE path,
                  search |-> SelectSeq(rest, IsSearch) ]
       ELSE InvalidUrl
  ELSE IF url[1] = "mailto:"
  THEN [ ok |-> TRUE, hostname |-> "", pathname |-> Tail(url), search |-> << >> ]
  ELSE InvalidUrl

\* extractDomainFromUrl(url): the hostname, or null
ExtractDomainFromUrl(url) ==
  IF NewURL(url).ok THEN NewURL(url).hostname ELSE Null

\* a getPathAndQueryFromUrl that leaves the query out
GetPathFromUrl(url) ==
  IF NewURL(url).ok THEN NewURL(url).pathname ELSE << "/" >>

\* getPathAndQueryFromUrl(url)
GetPathAndQueryFromUrl(url) ==
  IF NewURL(url).ok THEN NewURL(url).pathname \o NewURL(url).search
  ELSE << "/" >>

\* buildProxyUrl(token, pathAndQuery) of lib/utils.js
UtilsBuildProxyUrl(token, pathAndQuery) ==
  << "https://", token, ".", BASE_DOMAIN >> \o pathAndQuery

\* req.query: the url parameter, if there is one
NoUrl == [has |-> FALSE, url |-> << >>]
UrlQuery(url) == [has |-> TRUE, url |-> url]

\* what a management route answers
NoJson == [original |-> << >>, domain |-> "", token |-> "", proxy |-> << >>]
Answer(S, status, kind, json, path) ==
  [S |-> S, status |-> status, kind |-> kind, json |-> json, path |-> path]

\* the try block both routes share: the answer of GET /convert when all is
\* well, and the 400 of the catch
ConvertUrl(S, url, draws, t) ==
  LET domain == ExtractDomainFromUrl(url)
  IN  IF ~Truthy(domain) THEN Answer(S, 400, "error", NoJson, "none")
      ELSE LET R == GetTokenForDomain(S, domain, draws, t)
               proxyUrl == UtilsBuildProxyUrl(R.ret, GetPathAndQueryFromUrl(url))
           IN  Answer(R.S, 200, "json",
                      [ original |-> url, domain |-> domain, token |-> R.ret,
                        proxy |-> proxyUrl ], R.path)

\* app.get('/convert')
GetConvert(S, query, draws, t) ==
  IF ~query.has \/ query.url = << >> THEN Answer(S, 400, "error", NoJson, "none")
  ELSE ConvertUrl(S, query.url, draws, t)

\* app.get('/') with a url parameter: res.redirect(proxyUrl), or the 400 page
GetHomeUrl(S, query, draws, t) ==
  LET R == ConvertUrl(S, query.url, draws, t)
  IN  IF R.status = 200 THEN [R EXCEPT !.status = 302, !.kind = "redirect"]
      ELSE [R EXCEPT !.kind = "page"]

----------------------------------------------------------------------------
(* _generateToken() character by character: a token is the sequence of its  *)
(* characters, the clock is Date.now() in milliseconds.                     *)

TOKEN_LENGTH == 6

\* 'abcdefghijklmnopqrstuvwxyz0123456789'
TokenAlphabet ==
  << "a", "b", "c", "d", "e", "f", "g", "h", "i", "j", "k", "l", "m", "n",
     "o", "p", "q", "r", "s", "t", "u", "v", "w", "x", "y", "z", "0", "1",
     "2", "3", "4", "5", "6", "7", "8", "9" >>

\* Array.from(bytes).map(b => alphabet.charAt(b % 36)).join('')
TokenOfBytes(bytes) ==
  [i \in 1..Len(bytes) |-> TokenAlphabet[(bytes[i] % 36) + 1]]

\* ms.toString(36), ms not negative
RECURSIVE ToString36(_)
ToString36(ms) ==
  IF ms < 36 THEN << Digits36[ms + 1] >>
  ELSE Append(ToString36(ms \div 36), Digits36[(ms % 36) + 1])

\* a slice that keeps the whole string
SliceAll(str) == str

\* str.slice(-4)
SliceLast4(str) ==
  IF Len(str) <= 4 THEN str ELSE SubSeq(str, Len(str) - 3, Len(str))

\* the do-while loop of _generateToken: `attempts` draws made so far, `taken`
\* the keys of this.tokens
RECURSIVE GenerateChars(_, _, _, _)
GenerateChars(taken, draws, attempts, ms) ==
  LET token == TokenOfBytes(draws[attempts + 1])
  IN  IF attempts + 1 > MAX_ATTEMPTS
      THEN [token |-> token \o SliceLast4(ToString36(ms)), attempts |-> attempts + 1]
      ELSE IF token \in taken THEN GenerateChars(taken, draws, attempts + 1, ms)
      ELSE [token |-> token, attempts |-> attempts + 1]

----------------------------------------------------------------------------
(* The dispatch of setupProxyHandler.  A Host header is the sequence of its *)
(* lexemes; the lexeme DotBase is `.${config.BASE_DOMAIN}`.                 *)

DotBase == ".proxywarp.com"

\* the text of a sequence of lexemes
RECURSIVE Join(_)
Join(lexemes) ==
  IF lexemes = << >> THEN "" ELSE Head(lexemes) \o Join(Tail(lexemes))

\* host.endsWith(`.${config.BASE_DOMAIN}`)
EndsWithDotBase(host) == host # << >> /\ host[Len(host)] = DotBase

\* host.replace(lexeme, ''): a string pattern, so the first occurrence
ReplaceFirst(host, lexeme) ==
  LET i == FirstOf(host, 1, {lexeme})
  IN  IF i = 0 THEN host
      ELSE SubSeq(host, 1, i - 1) \o SubSeq(host, i + 1, Len(host))

\* the head of the middleware: next(), or the token of the subdomain
Dispatch(host) ==
  IF host = << >> \/ host = << BASE_DOMAIN >> \/ ~EndsWithDotBase(host)
  THEN [next |-> TRUE, token |-> ""]
  ELSE [next |-> FALSE, token |-> Join(ReplaceFirst(host, DotBase))]

----------------------------------------------------------------------------
(* The state machine *)

vars ==
  << tokens, domainMapping, backupTokens, dirty, lastSave, lastLoad,
     saveTimeout, isLoading, timers, debounce, saveDue, cleanupDue,
                  dirtySince, dbFile,
     tmpFile, disk, phase, now, ticks,
     crashes, requestCache, cacheTimers, cacheBorn, used, flight, page,
     allocated, resolved, last >>

routerVars == << requestCache, cacheTimers, cacheBorn, used >>

None == "-"

Op(op, arg, ret, path, n, expA, expL) ==
  [ op |-> op, arg |-> arg, ret |-> ret, path |-> path, n |-> n,
    expA |-> expA, expL |-> expL ]

\* nothing is remembered
NoHistory == [token |-> None, domain |-> None]

Idle == Op("other", None, None, None, 0, None, None)

Init ==
  /\ tokens = << >>
  /\ domainMapping = EmptyMapping
  /\ backupTokens = << >>
  /\ dirty = FALSE
  /\ lastSave = 0
  /\ lastLoad = 0
  /\ saveTimeout = FALSE
  /\ isLoading = FALSE
  /\ timers = 0
  /\ debounce = << >>
  /\ saveDue = 0
  /\ cleanupDue = 0
  /\ dirtySince = 0
  /\ dbFile = NoFile
  /\ tmpFile = NoFile
  /\ disk = "ok"
  /\ phase = "constructed"
  /\ now = StartTime
  /\ ticks = 0
  /\ crashes = 0
  /\ requestCache = EmptyMapping
  /\ cacheTimers = EmptyTimers
  /\ cacheBorn = EmptyMapping
  /\ used = EmptyMapping
  /\ flight = NoFlight
  /\ page = NoPage
  /\ allocated = NoHistory
  /\ resolved = NoHistory
  /\ last = Idle

\* the history `hist` once `token` was returned for `domain`: one return is
\* remembered at a time, any one (`watch` chooses), until cleanup removes the
\* token
Remember(hist, token, domain, watch) ==
  IF hist = NoHistory /\ watch THEN [token |-> token, domain |-> domain] ELSE hist

Forget(hist, removed) == IF hist.token \in removed THEN NoHistory ELSE hist

\* the entry of `token` has not expired: the one of this.tokens, or else the
\* one of the backup
Unexpired(token) ==
  IF ObjHas(tokens, token)
  THEN now - ObjGet(tokens, token).timestamp <= TOKEN_EXPIRATION
  ELSE /\ ObjHas(backupTokens, token)
       /\ now - ObjGet(backupTokens, token).timestamp <= TOKEN_EXPIRATION

\* tokens a client may ask for: the possible draws, every token the store, the
\* backup or the file knows, a padded one, an unknown one and the empty string
TokenInputs ==
  Bases \cup ObjKeys(tokens) \cup ObjKeys(backupTokens)
    \cup {dbFile.data[i][1] : i \in 1..Len(dbFile.data)}
    \cup {"aaaaaa ", "zzzzzz", ""}

\* tokenStore.initialize() at process start
Initialize ==
  /\ phase = "constructed"
  /\ \E S1 \in {LoadTokensFromFile(Constructed(dbFile, tmpFile, disk), now)} :
       Commit([S1 EXCEPT !.saveDue = now + SAVE_INTERVAL,
                         !.cleanupDue = now + CLEANUP_INTERVAL])
  /\ phase' = "running"
  /\ last' = Idle
  /\ UNCHANGED << disk, now, ticks, crashes, allocated, resolved, routerVars, flight, page >>

\* the disk starts to fail (it is full, say), or works again
DiskTurns ==
  /\ disk' = IF disk = "ok" THEN "failing" ELSE "ok"
  /\ last' = Idle
  /\ UNCHANGED << storeVars, phase, now, ticks, crashes, allocated, resolved, routerVars, flight, page >>

\* time passes, no further than the next eviction callback is due: a timer
\* of the event loop runs when its time has come
Tick(d) ==
  /\ ticks < MaxTicks
  /\ \A k \in DOMAIN cacheTimers :
       \A i \in 1..Len(cacheTimers[k]) : now + d <= cacheTimers[k][i]
  /\ now' = now + d
  /\ ticks' = ticks + 1
  /\ last' = Idle
  /\ UNCHANGED << storeVars, disk, phase, crashes, allocated, resolved,
                  routerVars, flight, page >>

\* a call of tokenStore.getTokenForDomain(d)
TokenForDomain(d, draws, watch) ==
  /\ phase = "running"
  /\ \E R \in {GetTokenForDomain(Store, d, draws, now)} :
         /\ Allocating(R.path) =>
               /\ Len(R.S.tokens) <= MaxTokens
               /\ Len(R.S.backupTokens) <= MaxTokens
         /\ Commit(R.S)
         /\ allocated' = Remember(allocated, R.ret, toLowerCase(d), watch)
         /\ last' = Op("getTokenForDomain", toLowerCase(d), R.ret, R.path, 0,
                       None, None)
  /\ UNCHANGED << disk, phase, now, ticks, crashes, resolved, routerVars, flight, page >>

\* a call of tokenStore.getDomainInfoFromToken(tokenIn)
DomainInfoFromToken(tokenIn, watch) ==
  /\ phase = "running"
  /\ \E R \in {GetDomainInfoFromToken(Store, tokenIn, now)} :
     LET token == trim(tokenIn)
         expA == IF token = allocated.token /\ Unexpired(token)
                 THEN allocated.domain ELSE None
         expL == IF token = resolved.token THEN resolved.domain ELSE None
     IN  /\ Commit(R.S)
         /\ resolved' = IF R.ret = Null THEN resolved
                        ELSE Remember(resolved, token, R.ret, watch)
         /\ last' = Op("getDomainInfoFromToken",
                       IF R.ret = Null THEN None ELSE token, R.ret, R.path, 0,
                       expA, expL)
  /\ UNCHANGED << disk, phase, now, ticks, crashes, allocated, routerVars, flight, page >>

\* a call of tokenStore.forceReload()
ForceReload ==
  /\ phase = "running"
  /\ \E R \in {ForceReloadOp(Store, now)} :
         /\ Commit(R.S)
         /\ last' = Op("forceReload", None, None, None, R.ret, None, None)
  /\ UNCHANGED << disk, phase, now, ticks, crashes, allocated, resolved, routerVars, flight, page >>

\* the setInterval callback of _setupCleanup
CleanupTick ==
  /\ phase = "running"
  /\ \E S1 \in {CleanupCallback(Store, now)}, removed \in {Expired(tokens, now)} :
         /\ S1.timers <= MaxTimers
         /\ Commit(S1)
         /\ allocated' = Forget(allocated, removed)
         /\ resolved' = Forget(resolved, removed)
         /\ last' = Op("cleanup", None, None, None, Cardinality(removed), None, None)
  /\ UNCHANGED << disk, phase, now, ticks, crashes, routerVars, flight, page >>

\* the setInterval callback of _setupPeriodicSave
PeriodicSaveTick ==
  /\ phase = "running"
  /\ \E S1 \in {IF dirty THEN SaveImmediately(Store, now) ELSE Store} : Commit(S1)
  /\ last' = Idle
  /\ UNCHANGED << disk, phase, now, ticks, crashes, allocated, resolved, routerVars, flight, page >>

\* the setInterval callback of _setupPeriodicReload
PeriodicReloadTick ==
  /\ phase = "running"
  /\ \E S1 \in {IF ~isLoading /\ ~dirty THEN LoadTokensFromFile(Store, now)
                ELSE Store} : Commit(S1)
  /\ last' = Idle
  /\ UNCHANGED << disk, phase, now, ticks, crashes, allocated, resolved, routerVars, flight, page >>

\* the setTimeout callback of save()
DebouncedSave ==
  /\ phase = "running"
  /\ timers > 0
  /\ \E S1 \in {SaveImmediately([Store EXCEPT !.timers = @ - 1,
                                              !.debounce = Tail(@)], now)} :
       Commit(S1)
  /\ last' = Idle
  /\ UNCHANGED << disk, phase, now, ticks, crashes, allocated, resolved, routerVars, flight, page >>

\* the same callback without its write: the interval passes, nothing is saved
PeriodicSaveSkips ==
  /\ phase = "running"
  /\ saveDue <= now
  /\ Commit([Store EXCEPT !.saveDue = @ + SAVE_INTERVAL])
  /\ last' = [op |-> "periodicSave", wasDirty |-> dirty, disk |-> disk]
  /\ UNCHANGED << disk, phase, now, ticks, crashes, allocated, resolved, routerVars, flight, page >>

\* the setInterval callback of _setupPeriodicSave runs as its time has come
PeriodicSaveRuns ==
  /\ phase = "running"
  /\ saveDue <= now
  /\ \E S1 \in {IF dirty THEN SaveImmediately(Store, now) ELSE Store} :
       Commit([S1 EXCEPT !.saveDue = @ + SAVE_INTERVAL])
  /\ last' = [op |-> "periodicSave", wasDirty |-> dirty, disk |-> disk]
  /\ UNCHANGED << disk, phase, now, ticks, crashes, allocated, resolved, routerVars, flight, page >>

\* the oldest setTimeout callback of save() runs as its time has come
DebouncedSaveRuns ==
  /\ debounce # << >>
  /\ debounce[1] <= now
  /\ DebouncedSave

\* d seconds pass, no further than the next callback of a save is due
Pass(d) ==
  /\ phase = "running"
  /\ ticks < MaxPasses
  /\ now + d <= saveDue
  /\ \A i \in 1..Len(debounce) : now + d <= debounce[i]
  /\ now' = now + d
  /\ ticks' = ticks + 1
  /\ last' = Idle
  /\ UNCHANGED << storeVars, disk, phase, crashes, allocated, resolved,
                  routerVars, flight, page >>

\* the expiration and two seconds pass with no call: the periodic callbacks
\* run every SAVE_INTERVAL and find nothing to save
LongPass ==
  /\ phase = "running"
  /\ now < StartTime + TOKEN_EXPIRATION
  /\ ~dirty
  /\ debounce = << >>
  /\ now < saveDue
  /\ now' = now + TOKEN_EXPIRATION + 2
  /\ saveDue' = saveDue + TOKEN_EXPIRATION
  /\ last' = Idle
  /\ UNCHANGED << tokens, domainMapping, backupTokens, dirty, lastSave, lastLoad,
                  saveTimeout, isLoading, timers, debounce, cleanupDue, dirtySince,
                  dbFile,
                  tmpFile, disk, phase, ticks, crashes, allocated, resolved, routerVars, flight,
                  page >>

\* an entry that was never set
NeverBorn == [at |-> 0, timed |-> FALSE]

\* the entries of the cache after a request at time t that left R: the set
\* after forceReload comes with no setTimeout and is the last one of the
\* handler; every other set comes with one
Born(born, ct, R, token, t) ==
  IF R.by = "reload" THEN CacheSet(born, token, [at |-> t, timed |-> FALSE])
  ELSE IF R.ct # ct THEN CacheSet(born, token, [at |-> t, timed |-> TRUE])
  ELSE born

\* tokens a request may carry in its Host header
HostTokens == Bases \cup {"zzzzzz", "", "constructor"}

\* Referer headers: none, a foreign one, or one of a proxied page
Referers == {NoReferer, ForeignReferer, "aaaaaa", "zzzzzz"}

\* a request with Host token.BASE_DOMAIN runs through the middleware
Served(token, referer) ==
  /\ phase = "running"
  /\ \E R \in {ProxyMiddleware(Store, requestCache, cacheTimers, token, referer,
                               now)} :
         /\ Commit(R.S)
         /\ requestCache' = R.cache
         /\ cacheTimers' = R.ct
         /\ cacheBorn' = Born(cacheBorn, cacheTimers, R, token, now)
         /\ last' = [ op |-> "proxyRequest", token |-> token,
                      referer |-> referer, status |-> R.status,
                      watchdog |-> R.watchdog, target |-> R.target, by |-> R.by ]
  /\ UNCHANGED << disk, phase, now, ticks, crashes, allocated, resolved, page >>

\* the same, the request not followed
Request(token, referer) ==
  /\ Served(token, referer)
  /\ UNCHANGED used

\* a request, looked at up to the return of the middleware
ProxyRequest(token, referer) ==
  /\ Request(token, referer)
  /\ UNCHANGED flight

\* the oldest eviction callback of `token` runs
EvictionRuns(token) ==
  /\ token \in DOMAIN cacheTimers
  /\ Len(cacheTimers[token]) > 0
  /\ requestCache' = CacheDelete(requestCache, token)
  /\ cacheTimers' = [cacheTimers EXCEPT ![token] = Tail(@)]
  /\ cacheBorn' = CacheDelete(cacheBorn, token)
  /\ UNCHANGED << storeVars, disk, phase, now, ticks, crashes, allocated, resolved,
                  used, flight, page >>

\* an eviction callback of the cache runs, at whatever time
CacheEvict(token) ==
  /\ EvictionRuns(token)
  /\ last' = Idle

\* an eviction callback of the cache runs as its time has come
CacheExpire(token) ==
  /\ EvictionRuns(token)
  /\ cacheTimers[token][1] <= now
  /\ last' = [ op |-> "cacheEvict", token |-> token,
               due |-> cacheTimers[token][1],
               held |-> token \in DOMAIN requestCache,
               born |-> IF token \in DOMAIN cacheBorn THEN cacheBorn[token]
                        ELSE NeverBorn ]

\* another process that shares DB_FILE allocates a token for a domain and
\* saves: the file holds what it held and the new entry
OtherProcessSaves(token, domain) ==
  /\ phase = "running"
  /\ dbFile.kind = "json"
  /\ Len(dbFile.data) < MaxTokens
  /\ \A i \in 1..Len(dbFile.data) : dbFile.data[i][1] # token
  /\ dbFile' = JsonFile(Append(dbFile.data,
                               << token, domain, DEFAULT_PROTOCOL, now >>))
  /\ last' = Idle
  /\ UNCHANGED << tokens, domainMapping, backupTokens, dirty, lastSave, lastLoad,
                  saveTimeout, isLoading, timers, debounce, saveDue, cleanupDue,
                  dirtySince,
                  tmpFile, disk, phase, now,
                  ticks, crashes, allocated, resolved, routerVars, flight, page >>

\* a step of the request in flight
FlightStep(F, event) ==
  /\ flight' = F
  /\ last' = [op |-> event, headers |-> NoHeaders]
  /\ UNCHANGED << storeVars, disk, phase, now, ticks, crashes, allocated, resolved,
                  routerVars, page >>

\* a request comes in and is followed to its end
RequestStarts(token, referer) ==
  /\ flight = NoFlight
  /\ Request(token, referer)
  /\ flight' = StartFlight(last'.status)

\* the upstream answers: the 'proxyRes' event
UpstreamResponds(h, chunks) ==
  /\ flight.up = "waiting"
  /\ flight' = OnProxyRes(flight, h, chunks)
  /\ last' = [op |-> "proxyRes", headers |-> h]
  /\ UNCHANGED << storeVars, disk, phase, now, ticks, crashes, allocated, resolved,
                  routerVars, page >>

\* a chunk of the upstream body arrives: a 'data' event
UpstreamChunk ==
  /\ flight.up = "responding"
  /\ flight.pending # << >>
  /\ FlightStep(OnData(flight, Head(flight.pending)), "data")

\* the upstream body is complete: the 'end' event
UpstreamEnds ==
  /\ flight.up = "responding"
  /\ flight.pending = << >>
  /\ FlightStep(OnEnd(flight), "end")

\* the connection to the upstream fails: the 'error' event
UpstreamFails ==
  /\ flight.up \in {"waiting", "responding"}
  /\ FlightStep(OnError(flight), "error")

\* the upstream socket did not move for proxyTimeout: the proxy aborts the
\* upstream request, which raises the 'error' event
UpstreamTimesOut ==
  /\ flight.up \in {"waiting", "responding"}
  /\ flight.idle >= PROXY_TIMEOUT
  /\ FlightStep(OnError(flight), "timeout")

\* the watchdog is due and was not cleared
WatchdogFires ==
  /\ flight.watchdog = "armed"
  /\ flight.elapsed >= REQUEST_TIMEOUT
  /\ FlightStep(RequestTimeout(flight), "watchdog")

\* time passes for the request in flight, no further than its next timer
Elapse ==
  /\ flight.up \in {"waiting", "responding"} \/ flight.watchdog = "armed"
  /\ flight.elapsed + Step <= MaxElapsed
  /\ flight.watchdog = "armed" => flight.elapsed + Step <= REQUEST_TIMEOUT
  /\ flight.up \in {"waiting", "responding"}
       => flight.idle + Step <= PROXY_TIMEOUT
  /\ FlightStep([flight EXCEPT !.elapsed = @ + Step, !.idle = @ + Step], "elapse")

\* the 'data' listeners of the rewriter have collected the body of an HTML
\* response: the pieces of a document, one after the other
BodyCollected(pieces) ==
  /\ page = NoPage
  /\ pieces # << >>
  /\ \E doc \in {Flatten(pieces)} :
       page' = [ pieces |-> pieces, input |-> doc, once |-> doc, output |-> doc,
                 runs |-> 0 ]
  /\ last' = Idle
  /\ UNCHANGED << storeVars, disk, phase, now, ticks, crashes, allocated, resolved,
                  routerVars, flight >>

\* the 'end' listener of the rewriter runs on the body: on the collected one
\* first, then on what it made of it
RewriterEnd ==
  /\ page # NoPage
  /\ page.runs < MaxRuns
  /\ \E out \in {Rewrite(page.output)} :
       page' = [page EXCEPT !.output = out, !.runs = @ + 1,
                            !.once = IF page.runs = 0 THEN out ELSE @]
  /\ last' = Idle
  /\ UNCHANGED << storeVars, disk, phase, now, ticks, crashes, allocated, resolved,
                  routerVars, flight >>

\* a management request with the query `query` is answered by `route`
Managed(op, query, R) ==
  /\ Allocating(R.path) =>
        /\ Len(R.S.tokens) <= MaxTokens
        /\ Len(R.S.backupTokens) <= MaxTokens
  /\ Commit(R.S)
  /\ last' = [ op |-> op, query |-> query, status |-> R.status, kind |-> R.kind,
               json |-> R.json, path |-> R.path ]
  /\ UNCHANGED << disk, phase, now, ticks, crashes, allocated, resolved,
                  routerVars, flight, page >>

\* GET /convert, with a url parameter or none
ConvertRequest(query, draws) ==
  /\ phase = "running"
  /\ \E R \in {GetConvert(Store, query, draws, now)} : Managed("convert", query, R)

\* GET /?url=u, u not empty
HomeRequest(query, draws) ==
  /\ phase = "running"
  /\ query.has /\ query.url # << >>
  /\ \E R \in {GetHomeUrl(Store, query, draws, now)} : Managed("home", query, R)

\* a call of _generateToken(), the one that is looked at: the first draw is
\* `first`, every further one `then`; this.tokens holds the keys `taken`; the
\* clock shows `ms`
Generates(first, then, taken, ms) ==
  /\ last = Idle
  /\ \E R \in {GenerateChars(taken,
                             [i \in 1..(MAX_ATTEMPTS + 1) |->
                                IF i = 1 THEN first ELSE then], 0, ms)} :
       last' = [ op |-> "generateToken", token |-> R.token,
                 attempts |-> R.attempts, ms |-> ms ]
  /\ UNCHANGED << storeVars, disk, phase, now, ticks, crashes, allocated, resolved,
                  routerVars, flight, page >>

\* a request with the Host header `host` comes to the middleware
HostRequest(host, referer) ==
  /\ phase = "running"
  /\ \E D \in {Dispatch(host)} :
       IF D.next
       THEN /\ last' = [ op |-> "dispatch", host |-> host, next |-> TRUE,
                         token |-> "", status |-> "next" ]
            /\ UNCHANGED << storeVars, routerVars >>
       ELSE \E R \in {ProxyMiddleware(Store, requestCache, cacheTimers, D.token,
                                      referer, now)} :
              /\ Commit(R.S)
              /\ requestCache' = R.cache
              /\ cacheTimers' = R.ct
              /\ cacheBorn' = Born(cacheBorn, cacheTimers, R, D.token, now)
              /\ UNCHANGED used
              /\ last' = [ op |-> "dispatch", host |-> host, next |-> FALSE,
                           token |-> D.token, status |-> R.status ]
  /\ UNCHANGED << disk, phase, now, ticks, crashes, allocated, resolved, flight,
                  page >>

\* the process dies between two handlers, or inside the _saveImmediately of
\* a periodic save: while the temporary file is written ("write"), or after
\* it is written and before it is renamed ("rename")
Crash(point) ==
  /\ phase = "running"
  /\ crashes < MaxCrashes
  /\ point # "idle" => dirty
  /\ \E files \in {IF point = "idle" THEN [db |-> dbFile, tmp |-> tmpFile]
                    ELSE WriteAtomically(IF point = "write" THEN "write_fail"
                                         ELSE "no_rename",
                                         dbFile, tmpFile, Stringify(tokens))} :
       Commit(Constructed(files.db, files.tmp, disk))
  /\ phase' = "constructed"
  /\ crashes' = crashes + 1
  /\ allocated' = NoHistory
  /\ resolved' = NoHistory
  /\ last' = Idle
  /\ requestCache' = EmptyMapping
  /\ cacheTimers' = EmptyTimers
  /\ cacheBorn' = EmptyMapping
  /\ used' = EmptyMapping
  /\ UNCHANGED << disk, now, ticks, flight, page >>

\* The directory with the clock standing still: calls, reloads, saves and a
\* disk that may fail, every entry as young as the process
Next ==
  \/ Initialize
  \/ DiskTurns
  \/ \E d \in DomainInputs, draws \in DrawSeqs : TokenForDomain(d, draws, FALSE)
  \/ \E tokenIn \in TokenInputs : DomainInfoFromToken(tokenIn, FALSE)
  \/ ForceReload
  \/ PeriodicSaveTick
  \/ PeriodicReloadTick

Spec == Init /\ [][Next]_vars

\* The same with one return of each of the two calls remembered, the random
\* draws all alike
NextWatch ==
  \/ Initialize
  \/ DiskTurns
  \/ \E d \in WatchDomainInputs, watch \in BOOLEAN :
       TokenForDomain(d, [i \in 1..(MAX_ATTEMPTS + 1) |-> "aaaaaa"], watch)
  \/ \E tokenIn \in TokenInputs, watch \in BOOLEAN :
       DomainInfoFromToken(tokenIn, watch)
  \/ ForceReload
  \/ PeriodicSaveTick
  \/ PeriodicReloadTick

SpecWatch == Init /\ [][NextWatch]_vars

\* The directory as time passes: entries expire and are cleaned up, saves are
\* debounced
NextTimed ==
  \/ Initialize
  \/ DiskTurns
  \/ \E d \in Deltas : Tick(d)
  \/ \E d \in TimedDomainInputs, draws \in TimedDrawSeqs :
       TokenForDomain(d, draws, FALSE)
  \/ \E tokenIn \in TokenInputs : DomainInfoFromToken(tokenIn, FALSE)
  \/ ForceReload
  \/ CleanupTick
  \/ PeriodicSaveTick
  \/ PeriodicReloadTick
  \/ DebouncedSave

SpecTimed == Init /\ [][NextTimed]_vars

\* The directory in a process that may die, between two handlers or inside a
\* save, and start again on the files it left
NextCrash ==
  \/ Initialize
  \/ DiskTurns
  \/ \E d \in TimedDomainInputs, draws \in TimedDrawSeqs :
       TokenForDomain(d, draws, FALSE)
  \/ \E tokenIn \in TokenInputs : DomainInfoFromToken(tokenIn, FALSE)
  \/ ForceReload
  \/ PeriodicSaveTick
  \/ PeriodicReloadTick
  \/ \E point \in {"idle", "write", "rename"} : Crash(point)

SpecCrash == Init /\ [][NextCrash]_vars

\* The router over the directory: requests, allocations, reloads and cache
\* evictions
NextRouter ==
  \/ Initialize
  \/ DiskTurns
  \/ \E draws \in TimedDrawSeqs : TokenForDomain("a.com", draws, FALSE)
  \/ \E token \in HostTokens, referer \in Referers : ProxyRequest(token, referer)
  \/ \E token \in HostTokens : CacheEvict(token)

SpecRouter == Init /\ [][NextRouter]_vars

\* tokens of the requests while the clock of the router runs: one this
\* process allocates, the one of the other process, and an unknown one
CacheTokens == {"aaaaaa", "cccccc", "zzzzzz"}

\* their Referer headers
CacheReferers == {NoReferer, "aaaaaa", "constructor"}

\* The router as time passes: cache entries are set and their eviction
\* callbacks run when due, another process adds a token to DB_FILE
NextCache ==
  \/ Initialize
  \/ \E d \in CacheDeltas : Tick(d)
  \/ TokenForDomain("a.com", [i \in 1..(MAX_ATTEMPTS + 1) |-> "aaaaaa"], FALSE)
  \/ OtherProcessSaves("cccccc", "b.com")
  \/ \E token \in CacheTokens, referer \in CacheReferers :
       ProxyRequest(token, referer)
  \/ \E token \in CacheTokens : CacheExpire(token)

SpecCache == Init /\ [][NextCache]_vars

\* tokens of the requests that are followed: a known one and an unknown one
FlightTokens == {"aaaaaa", "zzzzzz"}

\* headers of the upstream responses that are followed in time
FlightHeaders ==
  { [x \in {"content-type"} |-> "text/html"],
    [x \in {"content-type"} |-> "image/png"] }

\* their bodies, in chunks
FlightBodies == { << >>, << "c1" >>, << "c1", "c2" >> }

\* A request from the middleware to the end of its response, as time passes
NextFlight ==
  \/ Initialize
  \/ TokenForDomain("a.com", [i \in 1..(MAX_ATTEMPTS + 1) |-> "aaaaaa"], FALSE)
  \/ \E token \in FlightTokens : RequestStarts(token, NoReferer)
  \/ \E h \in FlightHeaders, chunks \in FlightBodies : UpstreamResponds(h, chunks)
  \/ UpstreamChunk
  \/ UpstreamEnds
  \/ UpstreamFails
  \/ UpstreamTimesOut
  \/ WatchdogFires
  \/ Elapse

SpecFlight == Init /\ [][NextFlight]_vars

\* the headers an upstream may send that the scrub is about, named as the
\* parser of Node names them, in lower case, each with a value of its own
ScrubInputs ==
  [ x \in { "x-frame-options", "content-security-policy",
            "content-security-policy-report-only", "feature-policy",
            "permissions-policy", "access-control-allow-origin",
            "access-control-allow-credentials" } |->
      CASE x = "x-frame-options" -> "DENY"
        [] x = "content-security-policy" -> "default-src 'none'"
        [] x = "access-control-allow-origin" -> "https://a.com"
        [] x = "access-control-allow-credentials" -> "false"
        [] OTHER -> "self" ]

\* the content types of the upstream responses: two of HTML, one of an
\* image, none
ContentTypes == {"text/html", "text/html; charset=utf-8", "image/png", ""}

\* the header objects of the upstream responses: every choice of the headers
\* above, with every content type
BodyHeaders ==
  { [x \in names \cup (IF ct = "" THEN {} ELSE {"content-type"}) |->
       IF x = "content-type" THEN ct ELSE ScrubInputs[x]] :
      names \in SUBSET (DOMAIN ScrubInputs), ct \in ContentTypes }

\* A request from the middleware to the end of its response, whatever the
\* upstream sends, with no timer running
NextBody ==
  \/ Initialize
  \/ TokenForDomain("a.com", [i \in 1..(MAX_ATTEMPTS + 1) |-> "aaaaaa"], FALSE)
  \/ \E token \in FlightTokens : RequestStarts(token, NoReferer)
  \/ \E h \in BodyHeaders, chunks \in FlightBodies : UpstreamResponds(h, chunks)
  \/ UpstreamChunk
  \/ UpstreamEnds
  \/ UpstreamFails

SpecBody == Init /\ [][NextBody]_vars

\* a piece of a document: its lexemes; the attribute it carries, if any; and
\* for an attribute that holds an absolute path, or an absolute URL of the
\* upstream domain or of www. before it, the path and query it holds
Text(lex) == [lex |-> lex, attr |-> "", upstream |-> FALSE, pathAndQuery |-> << >>]
Tag(lex, attr, pathAndQuery) ==
  [lex |-> lex, attr |-> attr, upstream |-> TRUE, pathAndQuery |-> pathAndQuery]
Foreign(lex, attr) ==
  [lex |-> lex, attr |-> attr, upstream |-> FALSE, pathAndQuery |-> << >>]

\* the pieces of the documents
DocPieces ==
  { Text(<< "<head>" >>),
    Text(<< "<base", " ", "href=", DQ, "https:", "//", "b.org", "/", DQ, ">" >>),
    Text(<< "<p>", "text", "</p>" >>),
    Text(<< "</body>" >>),
    Text(<< "</BODY>" >>),
    Tag(<< "<a", " ", "href=", DQ, "/", "p", DQ, ">" >>, "href=", << "/", "p" >>),
    Tag(<< "<a", " ", "href=", DQ, "/", "p", SQ, "s", DQ, ">" >>, "href=",
        << "/", "p", SQ, "s" >>),
    Tag(<< "<img", " ", "src=", SQ, "https:", "//", "a.com", "/", "p", "?q", SQ, ">" >>,
        "src=", << "/", "p", "?q" >>),
    Tag(<< "<a", " ", "href=", DQ, "//", "www.", "a.com", DQ, ">" >>, "href=", << >>),
    Foreign(<< "<a", " ", "href=", DQ, "https:", "//", "b.org", "/", "p", DQ, ">" >>,
            "href="),
    Foreign(<< "<a", " ", "href=", DQ, "https:", "//", "a.com", ".evil.org", "/", "p",
               DQ, ">" >>, "href="),
    Foreign(<< "<img", " ", "src=", DQ, "//", "b.org", "/", "p", DQ, ">" >>, "src="),
    Foreign(<< "<a", " ", "href=", DQ, "p", DQ, ">" >>, "href="),
    Tag(<< "<form", " ", "action=", DQ, "/", "p", "?q", DQ, ">" >>, "action=",
        << "/", "p", "?q" >>),
    Tag(<< "<form", " ", "method=", DQ, "post", DQ, " ", "action=", SQ, "https:", "//",
           "www.", "a.com", "/", "p", SQ, ">" >>, "action=", << "/", "p" >>),
    Foreign(<< "<form", " ", "action=", DQ, "https:", "//", "b.org", "/", "p", DQ, ">" >>,
            "action=") }

\* the documents: every sequence of at most MaxPieces pieces
Documents == UNION { [1..n -> DocPieces] : n \in 1..MaxPieces }

\* The rewriter, run on a document and then on what it made of it
NextRewrite ==
  \/ \E pieces \in Documents : BodyCollected(pieces)
  \/ RewriterEnd

SpecRewrite == Init /\ [][NextRewrite]_vars

\* the hosts of the URLs a client converts
UrlHosts == {"a.com", "A.com", "b.com", "a_b.com"}

\* a URL with a special scheme and a host: its text, and its parts
Url(scheme, host, path, search, hash) ==
  [ text |-> << scheme, "//", host >> \o path \o search \o hash,
    host |-> host, path |-> path, search |-> search ]

\* the URLs with a host name
GoodUrls ==
  { Url("https:", host, path, search, << >>) :
      host \in UrlHosts, path \in {<< >>, << "/foo" >>},
      search \in {<< >>, << "?bar=1" >>} }
    \cup { Url("http:", "a.com", << "/foo" >>, << "?bar=1" >>, << "#x" >>) }

\* texts that do not parse, or parse to a URL with no host name
BadUrls == { << "a.com", "/foo" >>, << "https:", "//" >>, << "https:" >>,
             << "mailto:", "x@a.com" >> }

\* the queries of the management requests
Queries ==
  {NoUrl, UrlQuery(<< >>)} \cup {UrlQuery(u.text) : u \in GoodUrls}
    \cup {UrlQuery(u) : u \in BadUrls}

\* The management routes: conversions and redirects
NextConvert ==
  \/ Initialize
  \/ \E query \in Queries, draws \in TimedDrawSeqs : ConvertRequest(query, draws)
  \/ \E query \in Queries, draws \in TimedDrawSeqs : HomeRequest(query, draws)

SpecConvert == Init /\ [][NextConvert]_vars

\* the values of a random byte: the ends of the range, and the ends of the
\* alphabet
ByteInputs == {0, 35, 255}

\* crypto.randomBytes(config.TOKEN_LENGTH)
RandomBytes == [1..TOKEN_LENGTH -> ByteInputs]

\* the draws after the first: one that repeats it and one that does not
LaterBytes == { [i \in 1..TOKEN_LENGTH |-> b] : b \in {0, 36} }

\* Date.now(): of one digit in base 36, of four, and of more
ClockInputs == {0, 35, 36, Pow36_4 - 1, Pow36_4, StartTime}

\* The generator, for every draw, every clock and a directory that holds the
\* token drawn, or not
NextGenerate ==
  \E first \in RandomBytes, then \in LaterBytes, ms \in ClockInputs :
    \E taken \in {{}, {TokenOfBytes(first)}, {TokenOfBytes(first), TokenOfBytes(then)}} :
      Generates(first, then, taken, ms)

SpecGenerate == Init /\ [][NextGenerate]_vars

\* Host headers: none, the base domain, subdomains of it with a known and
\* an unknown token, one with a port, a foreign host, a host that ends with
\* the base domain and no dot before it, and two that hold the base domain
\* twice
HostInputs ==
  { << >>, << BASE_DOMAIN >>, << "aaaaaa", DotBase >>, << "zzzzzz", DotBase >>,
    << "aaaaaa", DotBase, ":3000" >>, << "example.org" >>,
    << "x", BASE_DOMAIN >>, << "aaaaaa", DotBase, DotBase >>,
    << "aaaaaa", DotBase, "b", DotBase >> }

\* The middleware from the Host header on
NextDispatch ==
  \/ Initialize
  \/ DiskTurns
  \/ \E draws \in TimedDrawSeqs : TokenForDomain("a.com", draws, FALSE)
  \/ \E host \in HostInputs, referer \in {NoReferer, "aaaaaa"} :
       HostRequest(host, referer)
  \/ \E token \in HostTokens : CacheEvict(token)

SpecDispatch == Init /\ [][NextDispatch]_vars

\* what a Pass adds to the clock
PassSteps == {2, 10}

\* The directory second by second on a disk that works: calls refresh and
\* allocate, entries expire and are cleaned up, and the callbacks of the
\* saves run when they are due
NextLag ==
  \/ Initialize
  \/ \E d \in PassSteps : Pass(d)
  \/ LongPass
  \/ \E draws \in TimedDrawSeqs : TokenForDomain("a.com", draws, FALSE)
  \/ \E tokenIn \in {"aaaaaa", "bbbbbb"} : DomainInfoFromToken(tokenIn, FALSE)
  \/ CleanupTick
  \/ PeriodicSaveRuns
  \/ DebouncedSaveRuns

SpecLag == Init /\ [][NextLag]_vars

\* when the next callback of a save is due
NextDue ==
  IF debounce # << >> /\ debounce[1] < saveDue THEN debounce[1] ELSE saveDue

\* time passes until the next callback of a save is due
PassToDue ==
  /\ ticks < MaxDues
  /\ NextDue > now
  /\ Pass(NextDue - now)

\* the same for two domains, called between the callbacks, on a disk that
\* fails at times
NextFail ==
  \/ Initialize
  \/ DiskTurns
  \/ PassToDue
  \/ LongPass
  \/ \E d \in {"a.com", "b.com"} :
       TokenForDomain(d, [i \in 1..(MAX_ATTEMPTS + 1) |->
                            IF i = 1 THEN "aaaaaa" ELSE "bbbbbb"], FALSE)
  \/ CleanupTick
  \/ PeriodicSaveRuns
  \/ DebouncedSaveRuns

SpecFail == Init /\ [][NextFail]_vars

\* the setInterval callback of _setupCleanup runs as its time has come
CleanupRuns ==
  /\ phase = "running"
  /\ cleanupDue <= now
  /\ \E S1 \in {CleanupCallback(Store, now)}, removed \in {Expired(tokens, now)} :
         /\ Commit([S1 EXCEPT !.cleanupDue = @ + CLEANUP_INTERVAL])
         /\ allocated' = Forget(allocated, removed)
         /\ resolved' = Forget(resolved, removed)
         /\ last' = [op |-> "cleanup", n |-> Cardinality(removed),
                     pending |-> Len(debounce), flag |-> saveTimeout,
                     since |-> now - lastSave]
  /\ UNCHANGED << disk, phase, now, ticks, crashes, routerVars, flight, page >>

\* the first time of the periodic save that is no earlier than t
SaveDueFrom(t) ==
  IF saveDue >= t THEN saveDue
  ELSE saveDue + ((t - saveDue + SAVE_INTERVAL - 1) \div SAVE_INTERVAL) * SAVE_INTERVAL

\* Nothing is to be written and no call comes in for days: time passes to
\* `lead` seconds before the cleanup that comes `skipped` cleanups after the
\* next one.  The periodic saves in between find dirty false and the
\* cleanups in between find no entry expired: they change nothing.
QuietPass(skipped, lead) ==
  /\ phase = "running"
  /\ ticks < MaxCallbacks
  /\ ~dirty
  /\ debounce = << >>
  /\ now < saveDue
  /\ now < cleanupDue + skipped * CLEANUP_INTERVAL - lead
  /\ skipped > 0 =>
        Expired(tokens, cleanupDue + (skipped - 1) * CLEANUP_INTERVAL) = {}
  /\ now' = cleanupDue + skipped * CLEANUP_INTERVAL - lead
  /\ cleanupDue' = cleanupDue + skipped * CLEANUP_INTERVAL
  /\ saveDue' = SaveDueFrom(cleanupDue + skipped * CLEANUP_INTERVAL - lead)
  /\ ticks' = ticks + 1
  /\ last' = Idle
  /\ UNCHANGED << tokens, domainMapping, backupTokens, dirty, lastSave, lastLoad,
                  saveTimeout, isLoading, timers, debounce, dirtySince, dbFile,
                  tmpFile, disk, phase, crashes, allocated, resolved, routerVars,
                  flight, page >>

\* time passes until the next callback of a save or of the cleanup is due
PassToCallback ==
  /\ ticks < MaxCallbacks
  /\ \E t \in {IF cleanupDue < NextDue THEN cleanupDue ELSE NextDue} :
       /\ t > now
       /\ Pass(t - now)

\* cleanups a QuietPass skips, and seconds it stops before the next one
SkippedCleanups == {0, 30}
Leads == {5, 20}

\* The saves as the program makes them, callback by callback: the forced
\* ones of allocations, the one of the cleanup every 24 hours, the periodic
\* and the debounced ones, on a disk that fails at times
NextDebounce ==
  \/ Initialize
  \/ DiskTurns
  \/ \E skipped \in SkippedCleanups, lead \in Leads : QuietPass(skipped, lead)
  \/ PassToCallback
  \/ \E d \in {"a.com", "b.com"} :
       TokenForDomain(d, [i \in 1..(MAX_ATTEMPTS + 1) |->
                            IF i = 1 THEN "aaaaaa" ELSE "bbbbbb"], FALSE)
  \/ CleanupRuns
  \/ PeriodicSaveRuns
  \/ DebouncedSaveRuns

SpecDebounce == Init /\ [][NextDebounce]_vars

\* DB_FILE is left with a content that JSON.parse rejects, or such that it
\* cannot be read, by something other than a save of this process
FileDamaged(file) ==
  /\ phase = "running"
  /\ dbFile.kind = "json"
  /\ dbFile' = file
  /\ last' = Idle
  /\ UNCHANGED << tokens, domainMapping, backupTokens, dirty, lastSave, lastLoad,
                  saveTimeout, isLoading, timers, debounce, saveDue, cleanupDue,
                  dirtySince,
                  tmpFile, disk, phase, now,
                  ticks, crashes, allocated, resolved, routerVars, flight, page >>

\* The directory, alone at its file, and a file that gets damaged:
\* allocations, lookups, writes that fail, and reloads
NextRecover ==
  \/ Initialize
  \/ \E d \in {"a.com", "b.com"}, draws \in TimedDrawSeqs :
       TokenForDomain(d, draws, FALSE)
  \/ \E tokenIn \in Bases : DomainInfoFromToken(tokenIn, FALSE)
  \/ DiskTurns
  \/ \E file \in {PartialFile, UnreadableFile} : FileDamaged(file)
  \/ ForceReload

SpecRecover == Init /\ [][NextRecover]_vars

----------------------------------------------------------------------------
(* The claims *)

\* C1: byToken and byDomain are mutual inverses in every reachable state:
\* the domain of every entry of this.tokens maps back to its token, and every
\* domain of this.domainMapping maps to an entry of that domain.
C1_Bijection ==
  /\ \A i \in 1..Len(tokens) :
       /\ tokens[i].val.domain \in DOMAIN domainMapping
       /\ domainMapping[tokens[i].val.domain] = tokens[i].key
  /\ \A d \in DOMAIN domainMapping :
       /\ ObjHas(tokens, domainMapping[d])
       /\ ObjGet(tokens, domainMapping[d]).domain = d

\* C2: two getTokenForDomain calls for the same domain with nothing in
\* between return the same token, and the timestamp of its entry does not
\* decrease.
C2_Idempotent ==
  [][ ( /\ last.op = "getTokenForDomain"
        /\ last'.op = "getTokenForDomain"
        /\ last'.arg = last.arg )
      => ( /\ last'.ret = last.ret
           /\ ObjHas(tokens', last'.ret)
           /\ ObjGet(tokens', last'.ret).timestamp
                >= ObjGet(tokens, last.ret).timestamp ) ]_vars

\* C3: a lookup of a token that getTokenForDomain returned for a domain,
\* made while the entry has not expired, returns that domain.
C3_RoundTrip ==
  (last.op = "getDomainInfoFromToken" /\ last.expA # None)
    => last.ret = last.expA

\* C4: the token an allocating getTokenForDomain got from the generator was
\* not a key of this.tokens when it was generated.
C4_Unique ==
  (last.op = "getTokenForDomain" /\ Allocating(last.path))
    => last.path # "alloc_collision"

\* C5: a successful lookup of a token that an earlier lookup resolved, the
\* token not removed by cleanup since, returns the same domain.
C5_Stable ==
  (last.op = "getDomainInfoFromToken" /\ last.expL # None /\ last.ret # Null)
    => last.ret = last.expL

\* C6: when getTokenForDomain has allocated a token on a working disk, the
\* file holds this.tokens, the new entry included, and dirty is false as the
\* call returns.
C6_ImmediatePersist ==
  (last.op = "getTokenForDomain" /\ Allocating(last.path) /\ disk = "ok")
    => /\ ~dirty
       /\ dbFile = JsonFile(Stringify(tokens))
       /\ \E i \in 1..Len(dbFile.data) :
            /\ dbFile.data[i][1] = last.ret
            /\ dbFile.data[i][2] = last.arg

\* a debounced save was pending and the last save was less than the throttle
\* ago when a token was allocated and written
C6_Witness ==
  /\ last.op = "getTokenForDomain"
  /\ last.path = "alloc"
  /\ disk = "ok"
  /\ timers > 0
  /\ ~dirty

\* C7: every step leaves DB_FILE as it was or with the complete serialisation
\* of this.tokens, also the step of a crash inside a save; it never holds a
\* partial content.
C7_AtomicSave ==
  [][ \/ dbFile' = dbFile
      \/ dbFile' = JsonFile(Stringify(tokens')) ]_vars

\* the process died between the write of the temporary file and the rename:
\* the new content is in the temporary file, the old one in DB_FILE
C7_Witness ==
  /\ crashes > 0
  /\ tmpFile.kind = "json"
  /\ dbFile.kind = "json"
  /\ tmpFile.data # dbFile.data

\* C8: a forceReload called while DB_FILE holds the serialisation of
\* this.tokens leaves this.tokens and this.domainMapping as they were and
\* returns the number of entries.
C8_RoundTrip ==
  [][ (last'.op = "forceReload" /\ dbFile = JsonFile(Stringify(tokens)))
      => ( /\ tokens' = tokens
           /\ domainMapping' = domainMapping
           /\ last'.n = Len(tokens) ) ]_vars

\* what a cleanup step does to the three maps: the expired entries of
\* this.tokens leave this.tokens, the backup and, by their domain,
\* this.domainMapping; every other entry stays as it is
CleanupRemoves ==
  LET removed == Expired(tokens, now)
      domains == {ObjGet(tokens, r).domain : r \in removed}
  IN  /\ ObjKeys(tokens') = ObjKeys(tokens) \ removed
      /\ \A k \in ObjKeys(tokens') : ObjGet(tokens', k) = ObjGet(tokens, k)
      /\ ObjKeys(backupTokens') = ObjKeys(backupTokens) \ removed
      /\ \A k \in ObjKeys(backupTokens') :
           ObjGet(backupTokens', k) = ObjGet(backupTokens, k)
      /\ DOMAIN domainMapping' = (DOMAIN domainMapping) \ domains
      /\ \A d \in DOMAIN domainMapping' : domainMapping'[d] = domainMapping[d]
      /\ last'.n = Cardinality(removed)

UnknownToDirectory(token) ==
  /\ ~ObjHas(tokens, token)
  /\ ~ObjHas(backupTokens, token)
  /\ \A i \in 1..Len(dbFile.data) : dbFile.data[i][1] # token

\* C10: a request whose token is in neither the cache nor the directory nor
\* DB_FILE, and whose Referer is absent, foreign or of a token the directory
\* does not know either, is answered 400 with its watchdog cleared and nothing
\* forwarded, and afterwards the token has no entry in the cache, in
\* this.tokens, in the backup or in this.domainMapping.
C10_UnknownToken ==
  [][ ( /\ last'.op = "proxyRequest"
        /\ last'.token \notin DOMAIN requestCache
        /\ UnknownToDirectory(last'.token)
        /\ \/ last'.referer \in {NoReferer, ForeignReferer}
           \/ UnknownToDirectory(last'.referer) )
      => ( /\ last'.status = "400"
           /\ last'.watchdog = "cleared"
           /\ last'.target = "-"
           /\ last'.token \notin DOMAIN requestCache'
           /\ ~ObjHas(tokens', last'.token)
           /\ ~ObjHas(backupTokens', last'.token)
           /\ \A d \in DOMAIN domainMapping' :
                domainMapping'[d] # last'.token ) ]_vars

\* the in-memory directory knows the token: it is a key of this.tokens or of
\* the backup
KnownToDirectory(token) == ObjHas(tokens, token) \/ ObjHas(backupTokens, token)

\* the domain the directory holds for a token it knows
UpstreamOf(token) ==
  IF ObjHas(tokens, token) THEN ObjGet(tokens, token).domain
  ELSE ObjGet(backupTokens, token).domain

\* C11: a request whose token is in neither the cache nor the directory nor
\* DB_FILE, and whose Referer is of a token the directory knows, is forwarded
\* to the domain of the Referer's token, resolved by the Referer after the
\* lookup of its own token missed; that domain is cached under the request's
\* token, and the token gets no entry in this.tokens, in the backup or in
\* this.domainMapping.
C11_RefererRecovery ==
  [][ ( /\ last'.op = "proxyRequest"
        /\ last'.token \notin DOMAIN requestCache
        /\ UnknownToDirectory(last'.token)
        /\ last'.referer \notin {NoReferer, ForeignReferer}
        /\ KnownToDirectory(last'.referer) )
      => ( /\ last'.status = "forwarded"
           /\ last'.by = "referer"
           /\ last'.target = UpstreamOf(last'.referer)
           /\ last'.token \in DOMAIN requestCache'
           /\ requestCache'[last'.token] = last'.target
           /\ ~ObjHas(tokens', last'.token)
           /\ ~ObjHas(backupTokens', last'.token)
           /\ \A d \in DOMAIN domainMapping' :
                domainMapping'[d] # last'.token ) ]_vars

\* C12: every entry of the cache was set with an eviction callback of its
\* own, none is in the cache later than CACHE_TTL after it was set, and an
\* eviction callback that removes an entry runs CACHE_TTL after that entry
\* was set and was set with it.
C12_CacheEviction ==
  [][ /\ \A k \in DOMAIN requestCache' :
           /\ cacheBorn'[k].timed
           /\ now' - cacheBorn'[k].at <= CACHE_TTL
      /\ (last'.op = "cacheEvict" /\ last'.held)
           => /\ last'.born.timed
              /\ last'.born.at + CACHE_TTL = last'.due ]_vars

C14_UnresponsiveUpstream ==
  [][ (flight.up = "waiting" /\ last'.op \in {"timeout", "watchdog"})
      => ( /\ last'.op = "watchdog"
           /\ flight'.sent = << "504" >>
           /\ flight'.ended ) ]_vars

\* C15: when the connection to the upstream fails, or the upstream socket
\* stays silent for PROXY_TIMEOUT, onError answers: if no headers were sent
\* the client receives status 502 and the error page, and nothing else; if
\* headers were sent, no status and no body are added; either way the
\* response is ended.  The timeout comes exactly PROXY_TIMEOUT after the
\* upstream last moved.
C15_UpstreamFailure ==
  [][ last'.op \in {"error", "timeout"}
      => /\ last'.op = "timeout" => flight.idle = PROXY_TIMEOUT
         /\ flight'.ended
         /\ ~flight.headersSent
              => /\ flight'.sent = << "502" >>
                 /\ flight'.body = << Piece("page", "502", << >>) >>
         /\ flight.headersSent
              => /\ flight'.sent = flight.sent
                 /\ flight'.body = flight.body ]_vars

\* the upstream timed out in the middle of a body whose headers had gone to
\* the client: the response was ended with its one status
C15_Witness ==
  /\ last.op = "timeout"
  /\ flight.sent = << "200" >>
  /\ Len(flight.body) > 0
  /\ flight.ended
  /\ flight.fired = 0

\* C16: the headers res delivers for an upstream response hold none of
\* Content-Security-Policy, Content-Security-Policy-Report-Only,
\* Feature-Policy and Permissions-Policy, hold X-Frame-Options once, with the
\* value ALLOWALL, and hold the four Access-Control-Allow-* headers with
\* their fixed values.
C16_HeaderScrub ==
  [][ last'.op = "proxyRes"
      => LET d == flight'.headers
         IN  /\ (DOMAIN d) \cap { "content-security-policy",
                                  "Content-Security-Policy",
                                  "content-security-policy-report-only",
                                  "feature-policy", "permissions-policy",
                                  "X-Frame-Options" } = {}
             /\ { "x-frame-options", "access-control-allow-origin",
                  "access-control-allow-methods",
                  "access-control-allow-headers",
                  "access-control-allow-credentials" } \subseteq DOMAIN d
             /\ d["x-frame-options"] = "ALLOWALL"
             /\ d["access-control-allow-origin"] = "*"
             /\ d["access-control-allow-methods"]
                  = "GET, POST, PUT, PATCH, DELETE, OPTIONS"
             /\ d["access-control-allow-headers"]
                  = "Origin, X-Requested-With, Content-Type, Accept, Authorization"
             /\ d["access-control-allow-credentials"] = "true" ]_vars

\* an upstream response that carried every header the scrub is about, and
\* what was delivered for it
C16_Witness ==
  /\ last.op = "proxyRes"
  /\ DOMAIN ScrubInputs \subseteq DOMAIN last.headers
  /\ last.headers["x-frame-options"] = "DENY"
  /\ flight.headers["x-frame-options"] = "ALLOWALL"
  /\ "content-security-policy" \notin DOMAIN flight.headers

\* C17: the body res delivers for an HTML response is written by the
\* rewriter alone: while the response streams nothing of it reaches res, and
\* as it ends res holds the rewriting of the whole upstream body, once, and
\* is ended.
C17_SingleWriter ==
  [][ (flight'.html /\ last'.op \in {"data", "end"})
      => /\ \A i \in 1..Len(flight'.body) : flight'.body[i].by = "rewriter"
         /\ last'.op = "end"
              => /\ flight'.body
                      = << Piece("rewriter", "rewritten", flight'.upstream) >>
                 /\ flight'.ended ]_vars

\* C18: the body res delivers for a response that is not HTML is the
\* upstream body: as the response ends res holds every chunk once, in the
\* order of the upstream, as it came, and nothing else.
C18_PassThrough ==
  [][ (~flight'.html /\ last'.op = "end")
      => /\ [i \in 1..Len(flight'.body) |-> flight'.body[i].chunk]
              = flight'.upstream
         /\ \A i \in 1..Len(flight'.body) :
              /\ flight'.body[i].by \in {"onProxyRes", "http-proxy"}
              /\ flight'.body[i].of = << >>
         /\ flight'.ended ]_vars

\* sub stands in doc, lexeme by lexeme
Contains(doc, sub) ==
  \E i \in 0..(Len(doc) - Len(sub)) : SubSeq(doc, i + 1, i + Len(sub)) = sub

\* ProxyURL(token, pathAndQuery) of the specification, for the token of the
\* page: the origin of the proxy, then the path and query
ProxyURL(pathAndQuery) == << ProxyOrigin >> \o pathAndQuery

\* C19: rewrite closure: running the HTML rewriter on its own output yields
\* that output unchanged: no URL is rewritten a second time, no second base
\* tag and no second client script is inserted.
C19_RewriteClosure ==
  page.runs = 2 => page.output = page.once

\* C20: HTML rewrite result: in the rewritten document every quoted href or
\* src attribute that held an absolute path or an absolute URL of the
\* upstream domain (or www. and the domain) holds ProxyURL(token, path and
\* query) instead, and so does every form action that held an absolute path
\* or a same-origin absolute URL; a base tag with href ProxyURL(token, "/")
\* follows the first head tag if the input had no base tag; and the client
\* script stands immediately before the closing body tag, or at the end if
\* there is none.
C20_RewriteResult ==
  page.runs = 1 =>
    /\ \A n \in 1..Len(page.pieces) :
         page.pieces[n].upstream =>
           Contains(page.output,
                    << page.pieces[n].attr, DQ >>
                      \o ProxyURL(page.pieces[n].pathAndQuery) \o << DQ >>)
    /\ ( /\ ~Contains(page.input, << "<base" >>)
         /\ Contains(page.input, << "<head>" >>) )
         => Contains(page.output,
                     << "<head>", "\n", "<base", " ", "href=", DQ >>
                       \o ProxyURL(<< "/" >>) \o << DQ, ">", "\n" >>)
    /\ IF \E i \in 1..Len(page.input) : page.input[i] \in {"</body>", "</BODY>"}
       THEN \E i \in 1..Len(page.output) :
              /\ page.output[i] = ClientScript
              /\ At(page.output, i + 1) = "\n"
              /\ At(page.output, i + 2) \in {"</body>", "</BODY>"}
       ELSE page.output[Len(page.output)] = ClientScript

\* C21: only same-origin URLs are rewritten: the rewriter leaves unchanged
\* every href or src attribute whose URL designates a host other than the
\* upstream domain or www. and the domain, hosts of which the upstream domain
\* is a proper prefix and protocol-relative URLs to another host included.
C21_OnlySameOrigin ==
  page.runs = 1 =>
    \A n \in 1..Len(page.pieces) :
      ( /\ page.pieces[n].attr \in {"href=", "src="}
        /\ ~page.pieces[n].upstream
        /\ Contains(page.pieces[n].lex, << "//" >>) )
        => Contains(page.output, page.pieces[n].lex)

\* the URL of GoodUrls a query holds the text of, if any
UrlsOf(query) == {u \in GoodUrls : query.has /\ query.url = u.text}

\* the proxy URL the specification gives for a token and a URL: the origin of
\* the token, then the path of the URL (/ if its text has none) and its query
ProxyUrlOf(token, u) ==
  << "https://", token, ".", BASE_DOMAIN >>
    \o (IF u.path = << >> THEN << "/" >> ELSE u.path) \o u.search

\* the route answered 200 (or 302) for the URL u with what the contract lists
Converted(u, status, kind) ==
  /\ last'.status = status
  /\ last'.kind = kind
  /\ last'.json.original = u.text
  /\ last'.json.domain = HostToLower(u.host)
  /\ ObjHas(tokens', last'.json.token)
  /\ ObjGet(tokens', last'.json.token).domain = last'.json.domain
  /\ MappingGet(domainMapping', last'.json.domain) = last'.json.token
  /\ last'.json.proxy = ProxyUrlOf(last'.json.token, u)

LowerAlnum ==
  { "a", "b", "c", "d", "e", "f", "g", "h", "i", "j", "k", "l", "m", "n",
    "o", "p", "q", "r", "s", "t", "u", "v", "w", "x", "y", "z", "0", "1",
    "2", "3", "4", "5", "6", "7", "8", "9" }

\* C23: token alphabet: every token the generator returns matches
\* ^[a-z0-9]+$ and has a length from TokenLength to TokenLength + 4, for
\* every outcome of the random draws and every value of the clock.
C23_TokenAlphabet ==
  last.op = "generateToken" =>
    /\ Len(last.token) >= TOKEN_LENGTH
    /\ Len(last.token) <= TOKEN_LENGTH + 4
    /\ \A i \in 1..Len(last.token) : last.token[i] \in LowerAlnum

\* the generator gave up after its draws and returned a token with a suffix
\* of four characters, at a clock of more than four digits
C23_Witness ==
  /\ last.op = "generateToken"
  /\ last.attempts > MAX_ATTEMPTS
  /\ last.ms >= Pow36_4
  /\ Len(last.token) = TOKEN_LENGTH + 4

\* of the host names the URLs hold, those that are in lower case and match
\* ^([a-z0-9]([a-z0-9-]*[a-z0-9])?\.)+[a-z0-9]([a-z0-9-]*[a-z0-9])?$
DnsNames == {"a.com", "b.com"}

\* C24: domain validity: every domain stored in byToken and byDomain is in
\* lower case and conforms to the DNS label-sequence expression; a url query
\* whose hostname is malformed with respect to it is rejected with 400 by
\* /convert and /?url= and creates no entry.
C24_DomainValidity ==
  /\ \A i \in 1..Len(tokens) : tokens[i].val.domain \in DnsNames
  /\ \A d \in DOMAIN domainMapping : d \in DnsNames
  /\ last.op \in {"convert", "home"} =>
       \A u \in UrlsOf(last.query) :
         HostToLower(u.host) \notin DnsNames => last.status = 400

\* the Host header ends with a dot and the base domain
IsSubdomain(host) == Len(host) >= 1 /\ host[Len(host)] = DotBase

\* C25: dispatch rule: a request is handed to the management routes, with
\* no access to the directory or the cache, iff its Host header is empty,
\* equals BaseDomain or does not end with a dot and BaseDomain; for every
\* other Host the token looked up is exactly Host with its trailing dot and
\* BaseDomain removed.
C25_DispatchRule ==
  [][ last'.op = "dispatch" =>
        /\ last'.next <=> \/ last'.host = << >>
                          \/ last'.host = << BASE_DOMAIN >>
                          \/ ~IsSubdomain(last'.host)
        /\ last'.next => UNCHANGED << storeVars, routerVars >>
        /\ ~last'.next =>
             last'.token = Join(SubSeq(last'.host, 1, Len(last'.host) - 1)) ]_vars

\* C26: bounded persistence lag: whenever the in-memory directory diverges
\* from disk (a timestamp refresh, a re-materialisation from the backup or a
\* removal by the cleanup sets dirty) and no I/O error occurs, the state is
\* written to DBFile within at most 10 s.
C26_LagTenSeconds ==
  (phase = "running" /\ dirty) => now - dirtySince <= SAVE_THROTTLE

\* C26, amended: under the same conditions the state is written to DBFile
\* within at most 30 s, by the periodic save if by nothing before it.
C26_LagOfInterval ==
  /\ (phase = "running" /\ dirty) => now - dirtySince <= SAVE_INTERVAL
  /\ (phase = "running" /\ ~dirty) =>
        dbFile.kind = "json" /\ Parse(dbFile.data) = tokens

\* a refresh of a timestamp stayed unwritten until the periodic save, a whole
\* interval later, and the periodic save wrote it
C26_Witness ==
  /\ last.op = "periodicSave"
  /\ last.wasDirty
  /\ ~dirty
  /\ now - dirtySince = SAVE_INTERVAL
  /\ lastSave = now

\* a step of the periodic save, or of a debounced save, whose write fails
FailedSaveStep ==
  /\ phase = "running"
  /\ dirty
  /\ disk = "failing"
  /\ disk' = disk
  /\ now' = now
  /\ \/ saveDue' = saveDue + SAVE_INTERVAL
     \/ debounce # << >> /\ debounce' = Tail(debounce)

\* a save attempt that fails with an I/O error returns
\* normally and leaves byToken, byDomain and the backup as they were, dirty
\* true, lastSave and DBFile untouched, and the periodic save due again; and
\* no step taken while the disk fails advances lastSave, changes DBFile or
\* clears dirty
FailedSaveKeeps ==
  [][ /\ FailedSaveStep =>
          /\ tokens' = tokens
          /\ domainMapping' = domainMapping
          /\ backupTokens' = backupTokens
          /\ dirty'
          /\ lastSave' = lastSave
          /\ dbFile' = dbFile
          /\ saveDue' >= now
      /\ (phase = "running" /\ disk = "failing" /\ disk' = disk) =>
          /\ lastSave' = lastSave
          /\ dbFile' = dbFile
          /\ dirty => dirty' ]_vars

\* once a later attempt of the periodic save succeeds, DBFile equals the
\* in-memory byToken
LaterSaveWrites ==
  (last.op = "periodicSave" /\ last.wasDirty /\ last.disk = "ok") =>
     /\ ~dirty
     /\ lastSave = now
     /\ dbFile.kind = "json"
     /\ Parse(dbFile.data) = tokens

\* C27: failed save: when a save attempt fails with an I/O error, the caller
\* sees no exception, byToken, byDomain and the backup are unchanged, dirty
\* stays true, lastSave is not advanced and the next periodic save attempts
\* the write again; once a later attempt succeeds DBFile equals byToken
C27_FailedSave == FailedSaveKeeps /\ []LaterSaveWrites

\* a periodic save failed, and the next one, an interval later, wrote the
\* change
C27_Witness ==
  /\ last.op = "periodicSave"
  /\ last.wasDirty
  /\ last.disk = "ok"
  /\ now - dirtySince > SAVE_INTERVAL
  /\ tokens # << >>
  /\ Parse(dbFile.data) = tokens

\* byToken holds exactly the entries of the backup: the same tokens, each
\* with the domain and the protocol of its backup entry
SameEntries(toks, backup) ==
  /\ ObjKeys(toks) = ObjKeys(backup)
  /\ \A k \in ObjKeys(backup) :
       /\ ObjGet(toks, k).domain = ObjGet(backup, k).domain
       /\ ObjGet(toks, k).protocol = ObjGet(backup, k).protocol

\* byDomain is the inverse of byToken, with no key left over
InverseOf(toks, dm) ==
  /\ \A i \in 1..Len(toks) :
       /\ toks[i].val.domain \in DOMAIN dm
       /\ dm[toks[i].val.domain] = toks[i].key
  /\ \A d \in DOMAIN dm :
       /\ ObjHas(toks, dm[d])
       /\ ObjGet(toks, dm[d]).domain = d

\* C28: backup recovery on parse error: when a load finds DBFile unparseable
\* and the backup is not empty, the load returns normally, and afterwards
\* byToken holds exactly the backup's entries, byDomain is the inverse of
\* byToken with no stale key, DBFile holds that state and loading is false.
C28_BackupRecovery ==
  [][ ( /\ phase = "running"
        /\ dbFile.kind = "partial"
        /\ Len(backupTokens) > 0
        /\ disk = "ok"
        /\ last'.op = "forceReload" ) =>
      ( /\ SameEntries(tokens', backupTokens)
        /\ InverseOf(tokens', domainMapping')
        /\ dbFile' = JsonFile(Stringify(tokens'))
        /\ ~isLoading'
        /\ last'.n = Len(tokens') ) ]_vars

\* C29: meaning of dirty: in every state after initialisation, the file being
\* written by this process alone, dirty is true iff this.tokens differs from
\* the content of DBFile; dirty = false implies that DBFile parses to exactly
\* this.tokens.
C29_DirtyMeaning ==
  phase = "running" =>
     (dirty <=> ~(dbFile.kind = "json" /\ Parse(dbFile.data) = tokens))

OnlyInFile(token) ==
  /\ dbFile.kind = "json"
  /\ \E i \in 1..Len(dbFile.data) : dbFile.data[i][1] = token
  /\ ~ObjHas(tokens, token)
  /\ ~ObjHas(backupTokens, token)
  /\ token \notin DOMAIN requestCache

\* the domain DB_FILE holds for a token
FileOrigin(token) ==
  dbFile.data[CHOOSE i \in 1..Len(dbFile.data) : dbFile.data[i][1] = token][2]

\* C31 as stated: a request for a token that DB_FILE holds and the memory,
\* the backup and the cache do not is forwarded to the domain the file gives,
\* never answered 400, whatever lastLoad is.
C31_ForceReloadRetry ==
  [][ (last'.op = "proxyRequest" /\ OnlyInFile(last'.token))
      => ( /\ last'.status = "forwarded"
           /\ last'.target = FileOrigin(last'.token) ) ]_vars

\* C31: such a request is never answered 400; it is forwarded to the domain
\* the file gives unless its Referer is of a token the directory knows, whose
\* domain it is then forwarded to.
C31_RetryAfterReferer ==
  [][ (last'.op = "proxyRequest" /\ OnlyInFile(last'.token))
      => ( /\ last'.status = "forwarded"
           /\ last'.target =
                IF /\ last'.by = "referer"
                   /\ last'.referer \notin {NoReferer, ForeignReferer}
                   /\ KnownToDirectory(last'.referer)
                   /\ now - lastLoad <= LOOKUP_RELOAD_AGE
                THEN UpstreamOf(last'.referer)
                ELSE FileOrigin(last'.token) ) ]_vars

\* a request for a token of the file alone was resolved by the forced reload,
\* the last load being too recent for the lookup's own
C31_Witness ==
  /\ last.op = "proxyRequest"
  /\ last.token = "cccccc"
  /\ last.by = "reload"
  /\ last.status = "forwarded"
  /\ last.target = "b.com"
  /\ lastLoad = now
  /\ ObjHas(tokens, "cccccc")

\* some entry of this.tokens is of the domain
DomainExists(domain) ==
  \E i \in 1..Len(tokens) : tokens[i].val.domain = domain

\* C32: freshness on read: a getTokenForDomain for a domain that has an
\* entry, and a getDomainInfoFromToken that finds its token, leave the entry
\* of the token returned with the current time as its timestamp and dirty
\* set, on every path; a getDomainInfoFromToken that finds nothing changes
\* the timestamp of no entry.
C32_FreshOnRead ==
  [][ /\ (last'.op = "getTokenForDomain" /\ DomainExists(last'.arg))
          => /\ ObjHas(tokens', last'.ret)
             /\ ObjGet(tokens', last'.ret).timestamp = now
             /\ dirty'
      /\ (last'.op = "getDomainInfoFromToken" /\ last'.ret # Null)
          => /\ ObjHas(tokens', last'.arg)
             /\ ObjGet(tokens', last'.arg).timestamp = now
             /\ dirty'
      /\ (last'.op = "getDomainInfoFromToken" /\ last'.ret = Null)
          => \A k \in ObjKeys(tokens) :
               ObjHas(tokens', k)
                 => ObjGet(tokens', k).timestamp = ObjGet(tokens, k).timestamp
    ]_vars

----------------------------------------------------------------------------
(* buildProxyUrl, of lib/utils.js and of lib/linkRewriter.js, called on    *)
(* its own                                                                  *)

\* the tokens buildProxyUrl is called with
UrlTokens == {"aaaaaa", "bbbbbb", "a1b2c3"}

\* the lexemes of a pathAndQuery
PathLexemes == {"/", "//", "p", "?q", ".evil.org", "@b.org", ":8080"}

\* the values of pathAndQuery: none, and every text of one or two lexemes
PathAndQueries ==
  {<< >>} \cup { << a >> : a \in PathLexemes }
          \cup { << a, b >> : a \in PathLexemes, b \in PathLexemes }

\* a call of buildProxyUrl(token, pathAndQuery) of lib/utils.js
UtilsBuilds(token, pathAndQuery) ==
  /\ last = Idle
  /\ last' = [ op |-> "buildProxyUrl", module |-> "utils", token |-> token,
               pathAndQuery |-> pathAndQuery,
               url |-> UtilsBuildProxyUrl(token, pathAndQuery) ]
  /\ UNCHANGED << storeVars, disk, phase, now, ticks, crashes, allocated, resolved,
                  routerVars, flight, page >>

\* a call of buildProxyUrl('aaaaaa', pathAndQuery) of lib/linkRewriter.js
RewriterBuilds(pathAndQuery) ==
  /\ last = Idle
  /\ last' = [ op |-> "buildProxyUrl", module |-> "linkRewriter",
               token |-> "aaaaaa", pathAndQuery |-> pathAndQuery,
               url |-> BuildProxyUrl(pathAndQuery) ]
  /\ UNCHANGED << storeVars, disk, phase, now, ticks, crashes, allocated, resolved,
                  routerVars, flight, page >>

NextProxyUrl ==
  \/ \E token \in UrlTokens, p \in PathAndQueries : UtilsBuilds(token, p)
  \/ \E p \in PathAndQueries : RewriterBuilds(p)

SpecProxyUrl == Init /\ [][NextProxyUrl]_vars

\* the lexemes of a URL, the origin of the rewriter spelt out
RECURSIVE Spelt(_)
Spelt(url) ==
  IF url = << >> THEN << >>
  ELSE (IF Head(url) = ProxyOrigin
        THEN << "https://", "aaaaaa", ".", BASE_DOMAIN >>
        ELSE << Head(url) >>) \o Spelt(Tail(url))

\* the lexeme starts a path, a query or a fragment, or names a user or a port
EndsHostName(l) == l \in {"/", "//", "?q", "@b.org", ":8080"}

\* the host name of an https URL: what stands between the scheme and the
\* first lexeme that ends it
RECURSIVE HostNameFrom(_, _)
HostNameFrom(url, i) ==
  IF i > Len(url) \/ EndsHostName(url[i]) THEN << >>
  ELSE << url[i] >> \o HostNameFrom(url, i + 1)

\* the host of an https URL: the host name, unless a user name came first
HostOfUrl(url) ==
  LET name == HostNameFrom(url, 2)
  IN  IF At(url, Len(name) + 2) = "@b.org" THEN << "b.org" >> ELSE name

\* C33: buildProxyUrl(token, p) is 'https://' + token + '.' + BASE_DOMAIN + p'
\* where p' is p when p is empty or starts with '/', and '/' + p otherwise;
\* and the host of a URL the rewriter builds is token.BASE_DOMAIN.
C33_ProxyUrl ==
  last.op = "buildProxyUrl" =>
    LET p == last.pathAndQuery
        normalised == IF p = << >> \/ At(p, 1) \in {"/", "//"} THEN p
                      ELSE << "/" >> \o p
    IN  /\ Spelt(last.url)
             = << "https://", last.token, ".", BASE_DOMAIN >> \o normalised
        /\ last.module = "linkRewriter"
             => HostOfUrl(Spelt(last.url)) = << last.token, ".", BASE_DOMAIN >>

----------------------------------------------------------------------------
(* The script generateClientScript puts into a page of token aaaaaa whose   *)
(* upstream is a.com.  A URL is the sequence of its lexemes, PROXY_URL_PREFIX *)
(* the lexeme ProxyOrigin.                                                  *)

TARGET_DOMAIN == "a.com"

\* the lexemes that are a host, and String.prototype.toLowerCase of the host
\* parser
ClientIsHost(l) ==
  l \in {"a.com", "www.a.com", "A.com", "b.org", "a.com.evil.org", "aaaaaa.proxywarp.com"}

\* the lexemes of a query
ClientIsSearch(l) == l \in {"?bar=1", "?to=proxywarp.com"}

\* the scheme as the URL parser reads it: in lower case
SchemeToLower(s) == IF s = "HTTPS:" THEN "https:" ELSE s

\* url.includes(PROXY_BASE_DOMAIN)
IncludesBaseDomain(url) ==
  \E i \in 1..Len(url) :
    url[i] \in {ProxyOrigin, BASE_DOMAIN, "aaaaaa.proxywarp.com", "?to=proxywarp.com"}

\* url.includes('://')
IncludesSchemeSlashes(url) ==
  \E i \in 1..Len(url) :
    /\ url[i] \in {"https:", "http:", "HTTPS:"}
    /\ At(url, i + 1) = "//"

\* url.startsWith('http://') || url.startsWith('https://')
StartsWithHttp(url) == At(url, 1) \in {"https:", "http:"} /\ At(url, 2) = "//"

\* url.startsWith('/')
StartsWithSlash(url) == At(url, 1) \in {"/", "//", "/foo"}

\* new URL(url) of the browser, no base given: throws, or the parts of the URL
ClientInvalidUrl ==
  [ ok |-> FALSE, special |-> FALSE, hostname |-> "", pathname |-> << >>,
    search |-> << >>, hash |-> << >> ]
ClientNewURL(url) ==
  IF url = << >> THEN ClientInvalidUrl
  ELSE IF url[1] = ProxyOrigin
  THEN LET rest == Tail(url)
           path == SelectSeq(rest, IsPath)
       IN  [ ok |-> TRUE, special |-> TRUE, hostname |-> "aaaaaa.proxywarp.com",
             pathname |-> IF path = << >> THEN << "/" >> ELSE path,
             search |-> SelectSeq(rest, ClientIsSearch),
             hash |-> SelectSeq(rest, IsHash) ]
  ELSE IF SchemeToLower(url[1]) \in SpecialSchemes
  THEN IF At(url, 2) = "//" /\ ClientIsHost(At(url, 3))
       THEN LET rest == SubSeq(url, 4, Len(url))
                path == SelectSeq(rest, IsPath)
            IN  [ ok |-> TRUE, special |-> TRUE, hostname |-> HostToLower(url[3]),
                  pathname |-> IF path = << >> THEN << "/" >> ELSE path,
                  search |-> SelectSeq(rest, ClientIsSearch),
                  hash |-> SelectSeq(rest, IsHash) ]
       ELSE ClientInvalidUrl
  ELSE IF url[1] \in {"mailto:", "javascript:"}
  THEN [ ok |-> TRUE, special |-> FALSE, hostname |-> "", pathname |-> Tail(url),
         search |-> << >>, hash |-> << >> ]
  ELSE ClientInvalidUrl

\* the hostname is TARGET_DOMAIN or 'www.' + TARGET_DOMAIN
IsTargetHost(hostname) == hostname \in {TARGET_DOMAIN, "www.a.com"}

\* isExternalUrl(url)
IsExternalUrl(url) ==
  IF StartsWithSlash(url) \/ ~IncludesSchemeSlashes(url) THEN FALSE
  ELSE IF ~ClientNewURL(url).ok THEN FALSE
  ELSE ~IsTargetHost(ClientNewURL(url).hostname)

\* getProxiedUrl(url)
GetProxiedUrl(url) ==
  IF IncludesBaseDomain(url) THEN url
  ELSE IF StartsWithHttp(url)
  THEN LET urlObj == ClientNewURL(url)
       IN  IF ~urlObj.ok THEN url
           ELSE IF IsTargetHost(urlObj.hostname)
           THEN << ProxyOrigin >> \o urlObj.pathname \o urlObj.search \o urlObj.hash
           ELSE url
  ELSE IF StartsWithSlash(url) THEN << ProxyOrigin >> \o url
  ELSE url

\* the click listener: the URL the browser goes to after a click on a link
\* of this href, by the link itself or by the setter of location.href
ClickGoesTo(href) ==
  IF \/ At(href, 1) \in {"javascript:", "mailto:", "#x"}
     \/ IncludesBaseDomain(href)
     \/ IsExternalUrl(href)
  THEN href
  ELSE GetProxiedUrl(GetProxiedUrl(href))

\* the ways a URL comes to the script
Interceptors == {"click", "history", "location", "fetch", "xhr"}

\* the URLs the page hands to the script
ClientUrls ==
  { << scheme, "//", host >> \o path \o search \o hash :
      scheme \in {"https:", "http:", "HTTPS:"},
      host \in {"a.com", "www.a.com", "A.com", "b.org", "a.com.evil.org",
                "aaaaaa.proxywarp.com"},
      path \in {<< >>, << "/foo" >>},
      search \in {<< >>, << "?bar=1" >>, << "?to=proxywarp.com" >>},
      hash \in {<< >>, << "#x" >>} }
    \cup { << "/foo" >>, << "/foo", "?bar=1" >>, << "#x" >>, << "foo" >>,
           << "mailto:", "x@a.com" >>, << "javascript:", "void(0)" >>,
           << "https:", "//" >> }

\* an interceptor of the script is handed a URL
Intercepts(by, url) ==
  /\ last = Idle
  /\ last' = [ op |-> "client", by |-> by, url |-> url,
               proxied |-> GetProxiedUrl(url),
               dest |-> IF by = "click" THEN ClickGoesTo(url)
                        ELSE GetProxiedUrl(url) ]
  /\ UNCHANGED << storeVars, disk, phase, now, ticks, crashes, allocated, resolved,
                  routerVars, flight, page >>

NextClient == \E by \in Interceptors, url \in ClientUrls : Intercepts(by, url)

SpecClient == Init /\ [][NextClient]_vars

\* C34: getProxiedUrl of an absolute http(s) URL whose hostname is the
\* upstream domain or www.<domain> is PROXY_URL_PREFIX + pathname + search +
\* hash, that of an absolute http(s) URL of another host is the URL itself,
\* and no interceptor lets a URL of the upstream host go to that host.
C34_ProxiedUrl ==
  (last.op = "client" /\ ClientNewURL(last.url).special) =>
    LET u == ClientNewURL(last.url)
    IN  IF IsTargetHost(u.hostname)
        THEN /\ last.proxied = << ProxyOrigin >> \o u.pathname \o u.search \o u.hash
             /\ ~IsTargetHost(ClientNewURL(last.dest).hostname)
        ELSE last.proxied = last.url

----------------------------------------------------------------------------
(* The routes of routes/index.js that call the token store, and the home    *)
(* page                                                                     *)

\* exampleDomains of app.get('/')
exampleDomains == << "google.com", "github.com", "example.com" >>

\* the draws of _generateToken while the home page is made: a token of its
\* own for every example
ExampleDraws ==
  [ d \in {"google.com", "github.com", "example.com", "a.com"} |->
      [ i \in 1..(MAX_ATTEMPTS + 1) |->
          CASE d = "google.com" -> "gggggg"
            [] d = "github.com" -> "hhhhhh"
            [] d = "example.com" -> "eeeeee"
            [] OTHER -> "aaaaaa" ] ]

\* exampleDomains.map(domain => tokenStore.getTokenForDomain(domain)) over
\* the first n domains of the list: the store it leaves
RECURSIVE MapExamples(_, _, _, _)
MapExamples(S, domains, n, t) ==
  IF n = 0 THEN S
  ELSE GetTokenForDomain(MapExamples(S, domains, n - 1, t), domains[n],
                         ExampleDraws[domains[n]], t).S

\* a home page that lists a.com beside the examples
GetHomeWider(S, t) ==
  MapExamples(S, Append(exampleDomains, "a.com"), Len(exampleDomains) + 1, t)

\* app.get('/') with no url parameter: the store it leaves
GetHome(S, t) == MapExamples(S, exampleDomains, Len(exampleDomains), t)

\* GET / with no url parameter
HomePage ==
  /\ phase = "running"
  /\ \E S1 \in {GetHome(Store, now)} :
       /\ Len(S1.tokens) <= MaxTokens + Len(exampleDomains)
       /\ Len(S1.backupTokens) <= MaxTokens + Len(exampleDomains)
       /\ Commit(S1)
  /\ last' = [ op |-> "homePage", status |-> 200, before |-> Len(tokens) ]
  /\ UNCHANGED << disk, phase, now, ticks, crashes, allocated, resolved,
                  routerVars, flight, page >>

\* GET /admin/add-test-token, with a domain parameter or none
AddTestToken(domainIn, draws) ==
  /\ phase = "running"
  /\ \E R \in {GetTokenForDomain(Store, IF domainIn = "" THEN "example.com"
                                       ELSE domainIn, draws, now)} :
       /\ Allocating(R.path) =>
             /\ Len(R.S.tokens) <= MaxTokens
             /\ Len(R.S.backupTokens) <= MaxTokens
       /\ Commit(R.S)
       /\ last' = [ op |-> "addTestToken", status |-> 200, token |-> R.ret,
                    path |-> R.path ]
  /\ UNCHANGED << disk, phase, now, ticks, crashes, allocated, resolved,
                  routerVars, flight, page >>

\* the queries of the conversions
PageQueries ==
  { NoUrl, UrlQuery(<< "https:", "//", "a.com", "/foo" >>),
    UrlQuery(<< "https:", "//", "b.com" >>), UrlQuery(<< "https:", "//" >>) }

\* The routes that reach the directory, the home page among them, and the
\* requests that look a token up
NextPages ==
  \/ Initialize
  \/ \E d \in {ALLOC_RELOAD_AGE + 1} : Tick(d)
  \/ HomePage
  \/ \E query \in PageQueries, draws \in TimedDrawSeqs : ConvertRequest(query, draws)
  \/ \E query \in PageQueries, draws \in TimedDrawSeqs : HomeRequest(query, draws)
  \/ \E domainIn \in {"", "b.com"}, draws \in TimedDrawSeqs :
       AddTestToken(domainIn, draws)
  \/ \E tokenIn \in Bases \cup {"gggggg", "zzzzzz"} : DomainInfoFromToken(tokenIn, FALSE)
  \/ ForceReload

SpecPages == Init /\ [][NextPages]_vars

\* the tokens of DB_FILE
FileTokens ==
  IF dbFile.kind = "json" THEN {dbFile.data[i][1] : i \in 1..Len(dbFile.data)}
  ELSE {}

\* the tokens of the entries this step creates: those of this.tokens that
\* neither it nor the backup nor DB_FILE held
Created ==
  {k \in ObjKeys(tokens') :
     ~ObjHas(tokens, k) /\ ~ObjHas(backupTokens, k) /\ k \notin FileTokens}

\* C35: an entry is created only by /convert, by /?url=<u> and by
\* /admin/add-test-token, and GET / without a url leaves this.tokens,
\* this.domainMapping and the backup as they are.
C35_CreationPoints ==
  [][ /\ Created # {} => last'.op \in {"convert", "home", "addTestToken"}
      /\ last'.op = "homePage"
           => UNCHANGED << tokens, domainMapping, backupTokens >> ]_vars

\* C35, amended: an entry is created only by /convert, by /?url=<u>, by
\* /admin/add-test-token and by the home page, and GET / without a url
\* creates entries of no domain but its three examples.
C35_HomePageExamples ==
  [][ /\ Created # {}
           => last'.op \in {"convert", "home", "addTestToken", "homePage"}
      /\ last'.op = "homePage"
           => \A k \in Created :
                ObjGet(tokens', k).domain
                  \in {exampleDomains[i] : i \in 1..Len(exampleDomains)} ]_vars

\* the home page was served to a directory that held a.com alone, and the
\* three examples stand beside it
C35_Witness ==
  /\ last.op = "homePage"
  /\ last.before = 1
  /\ Len(tokens) = 4
  /\ DOMAIN domainMapping = {"a.com", "google.com", "github.com", "example.com"}

\* neither this.tokens nor the backup holds the token: where DB_FILE is
\* written by this process alone, it is a token no entry ever had or one whose
\* entry the cleanup removed, the one store that deletes from the backup
NowhereHeld(token) == ~ObjHas(tokens, token) /\ ~ObjHas(backupTokens, token)

\* the step is a getTokenForDomain that returns the token, drawn anew or
\* found for its domain
AllocatesAnew(token) ==
  /\ last'.op = "getTokenForDomain"
  /\ last'.ret = token

\* C36: expiry is final: an entry the cleanup removed, held neither by
\* this.tokens nor by the backup, does not come back but by a
\* getTokenForDomain that allocates its token anew: no lookup finds it, and
\* no save and no reload from DB_FILE puts it into this.tokens again.
C36_ExpiryFinal ==
  [][ phase = "running" =>
        \A k \in ObjKeys(tokens') : NowhereHeld(k) => AllocatesAnew(k) ]_vars

\* every entry of this.tokens is there after the step, its timestamp no
\* older than it was
EntriesKept ==
  \A k \in ObjKeys(tokens) :
    /\ ObjHas(tokens', k)
    /\ ObjGet(tokens', k).timestamp >= ObjGet(tokens, k).timestamp

\* C37: no lost update on reload: while dirty is set, no step but the cleanup
\* takes an entry or a refreshed timestamp out of this.tokens, and none puts
\* an entry the cleanup removed back into it: whatever triggers a load
\* (the periodic reload, a miss of getTokenForDomain or of
\* getDomainInfoFromToken, forceReload), DB_FILE does not replace changes
\* that were not saved.
C37_NoLostUpdate ==
  [][ (phase = "running" /\ dirty /\ last'.op # "cleanup") =>
        /\ EntriesKept
        /\ \A k \in ObjKeys(tokens') : NowhereHeld(k) => AllocatesAnew(k) ]_vars

----------------------------------------------------------------------------
(* A token in use: the requests to its subdomain are followed in time       *)

\* how often time passes while the requests are followed
MaxWaits == 3

\* what may pass between two steps: a second, nearly the life of a cache
\* entry, and what then is left of the expiration, less a few seconds
Waits == {1, CACHE_TTL - 1, TOKEN_EXPIRATION - CACHE_TTL + 2}

\* the record of `token` once a request to it came at t
Use(u, token, t) ==
  CacheSet(u, token,
           [ at |-> t,
             steady |-> IF token \in DOMAIN u
                        THEN u[token].steady /\ t - u[token].at < TOKEN_EXPIRATION
                        ELSE TRUE ])

\* a request to token.BASE_DOMAIN that is followed
UsedRequest(token) ==
  /\ Served(token, NoReferer)
  /\ used' = Use(used, token, now)
  /\ UNCHANGED flight

\* d seconds pass, no further than the next eviction callback is due
Wait(d) ==
  /\ phase = "running"
  /\ ticks < MaxWaits
  /\ \A k \in DOMAIN cacheTimers :
       \A i \in 1..Len(cacheTimers[k]) : now + d <= cacheTimers[k][i]
  /\ now' = now + d
  /\ ticks' = ticks + 1
  /\ last' = Idle
  /\ UNCHANGED << storeVars, disk, phase, crashes, allocated, resolved,
                  routerVars, flight, page >>

\* Requests to the tokens of two domains, one allocated by this process and
\* one by another, as time passes, cache entries are evicted and the cleanup
\* runs
NextUse ==
  \/ Initialize
  \/ TokenForDomain("a.com", [i \in 1..(MAX_ATTEMPTS + 1) |-> "aaaaaa"], FALSE)
  \/ OtherProcessSaves("cccccc", "b.com")
  \/ \E token \in {"aaaaaa", "cccccc"} : UsedRequest(token)
  \/ \E token \in {"aaaaaa", "cccccc"} : CacheExpire(token)
  \/ \E d \in Waits : Wait(d)
  \/ CleanupTick

SpecUse == Init /\ [][NextUse]_vars

\* requests to the token have come, each less than TOKEN_EXPIRATION after
\* the one before, the last one less than TOKEN_EXPIRATION ago
InUse(token) ==
  /\ token \in DOMAIN used
  /\ used[token].steady
  /\ now - used[token].at < TOKEN_EXPIRATION

\* C38: a token in use does not expire: a request that is forwarded leaves the
\* entry of its token with the current time as its timestamp, by whatever
\* path it was resolved, a hit of the cache included, and the cleanup removes
\* no entry whose token is in use.
C38_TokenInUse ==
  [][ /\ (last'.op = "proxyRequest" /\ last'.status = "forwarded"
            /\ ObjHas(tokens', last'.token))
          => ObjGet(tokens', last'.token).timestamp = now
      /\ last'.op = "cleanup"
          => \A k \in ObjKeys(tokens) : InUse(k) => ObjHas(tokens', k) ]_vars

\* the error pages among the pieces res delivered
PagesOf(F) == {i \in 1..Len(F.body) : F.body[i].by = "page"}

\* C39: one response per request: whatever the order of the watchdog, the
\* upstream response, the upstream error and the 'end' listener of the
\* rewriter, res has its status line and headers written once at most, no
\* callback writes headers after they were sent, and an error page (504,
\* 502, 400, 500) is the whole of the response it is part of.
C39_OneResponse ==
  /\ Len(flight.sent) <= 1
  /\ ~flight.threw
  /\ \A i \in PagesOf(flight) :
       /\ Len(flight.body) = 1
       /\ flight.sent = << flight.body[i].chunk >>

====
